---- MODULE Spec2Model ----
(***************************************************************************)
(* NFT tracker bot: the in-memory NFT registry with its /track, /untrack   *)
(* and /alert handlers and the periodic alert evaluator, the retrying      *)
(* fetch wrapper (retryFetch) and the timeout wrapper (withTimeout).       *)
(*                                                                         *)
(* The process is a single-threaded event loop: every action below is one  *)
(* run-to-completion piece of a handler, from one suspension point (an     *)
(* await) to the next.                                                     *)
(***************************************************************************)
EXTENDS Integers, Sequences, FiniteSets, Bags, TLC

VARIABLES
    heap,         \* the TrackedNFT objects, by object identity
    trackedNFTs,  \* the registry array: a sequence of object identities
    reqs,         \* the /track handlers suspended at an await (a bag)
    cycles,       \* alert evaluator callbacks suspended at an await
    last,         \* the handler step taken last and the messages it sent
    rf,           \* one retryFetch call
    wt,           \* withTimeout calls, their operations and their timers
    lists,        \* the /list handler suspended at an await
    e2e,          \* the conversation of one chat, as far as it has got
    trackedCollections,  \* the collection registry: symbol -> snapshot
    colls,        \* collection fetch pipelines in flight
    issued,       \* history: which pipelines sent their requests before which
    sale,         \* one lastBuy invocation
    told,         \* history: the sales earlier invocations have notified
    sends,        \* unawaited sendMessage promises still in flight
    proc          \* the Node process: "running" or "exited"

listVars == <<lists, e2e>>
collVars == <<trackedCollections, colls, issued>>
saleVars == <<sale, told>>
procVars == <<sends, proc>>

vars == <<heap, trackedNFTs, reqs, cycles, last, rf, wt,
          lists, e2e, trackedCollections, colls, issued, sale, told, sends, proc>>

(***************************************************************************)
(* Bounds of the model.                                                    *)
(***************************************************************************)
MaxObjs == 3      \* TrackedNFT objects alive at one time
MaxPolled == 2    \* registry entries while the evaluator runs
MaxReqs == 2      \* /track handlers in flight at one time
MaxCycles == 1    \* evaluator callbacks in flight at one time
MaxOverlap == 2   \* evaluator callbacks in flight where cycles overlap
MaxRetries == 3   \* largest maxRetries a retryFetch call is given
MaxCalls == 2     \* withTimeout calls alive at one time
MaxPipes == 2     \* collection fetch pipelines in flight at one time
MaxSends == 2     \* unawaited sendMessage promises in flight at one time
MaxActivities == 2   \* activities in one response of the marketplace

(***************************************************************************)
(* Values.                                                                 *)
(***************************************************************************)
None == <<>>                 \* undefined / missing
Some(v) == <<v>>

Mints == {"m1", "m2"}
PolledMints == {"m1"}
Chats == {1, 2}
NoArg == ""                  \* text.split(' ')[1] is undefined

LAMPORTS == 1000000000       \* 1e9

\* parsed /alert prices; None is NaN (missing or unparsable)
AlertInputs == {None, Some(1), Some(2)}

\* nftData.price of a token response; None when the field is missing
FetchedPrices == {None, Some(0), Some(LAMPORTS), Some(LAMPORTS + 1)}

\* nftData of a token response, as far as /track reads it: the marketplace
\* serves two tokens of collection c1 with a name, the others with neither
Metadata(m) ==
    IF m = "m1" THEN [name |-> Some("Demon"), collection |-> Some("c1")]
    ELSE IF m = "m3" THEN [name |-> Some("Imp"), collection |-> Some("c1")]
    ELSE [name |-> None, collection |-> None]

\* the tokens of one collection, and collection symbols
CollectionMints == {"m1", "m3"}
Symbols == {"c1", "c2"}

\* COLLECTIONS.TRENCH_DEMONS, the collection of /trench
TRENCH_DEMONS == [symbol |-> "trench_demons", name |-> "Trench Demons",
                  marketplace_url |-> "https://magiceden.us/marketplace/trench_demons"]

\* Date.now(), in milliseconds
Clock == {200000}

\* the body of the stats response: an object with or without the fields
StatsData == {[floorPrice |-> Some(5), volumeAll |-> Some(7), listedCount |-> Some(2)],
              [floorPrice |-> None, volumeAll |-> None, listedCount |-> None]}

\* the body of the activities response: a list of at most 2 (limit=2) sales
Activity(price, createdAt) ==
    [price |-> price, createdAt |-> createdAt, tokenMint |-> Some("m1")]
ActivityData == {<<>>, <<Activity(Some(3), Some(50))>>,
                 <<Activity(None, None), Activity(Some(3), Some(50))>>}

Range(s) == {s[i] : i \in 1..Len(s)}

\* JavaScript's x || d on an optional number: undefined and 0 are falsy
OrElse(x, d) == IF x = None \/ x[1] = 0 THEN d ELSE x[1]

\* JavaScript truthiness of an optional number
Truthy(x) == x # None /\ x[1] # 0

(***************************************************************************)
(* The registry.                                                           *)
(***************************************************************************)
Free == [mintAddress |-> "", chatId |-> 0, name |-> "", collection |-> None,
         lastPrice |-> None, alertPrice |-> None]

\* the registry as the sequence of its entries
Reg == [i \in 1..Len(trackedNFTs) |-> heap[trackedNFTs[i]]]

Matches(e, m, c) == e.mintAddress = m /\ e.chatId = c

\* trackedNFTs.some(nft => nft.mintAddress === mintAddress && nft.chatId === chat)
IsTracked(m, c) == \E i \in 1..Len(trackedNFTs) : Matches(Reg[i], m, c)

\* trackedNFTs.findIndex(...): the first matching position, 0 for -1
FindIndex(m, c) ==
    IF IsTracked(m, c)
    THEN CHOOSE i \in 1..Len(trackedNFTs) :
             /\ Matches(Reg[i], m, c)
             /\ \A j \in 1..(i - 1) : ~Matches(Reg[j], m, c)
    ELSE 0

\* the object literal that /track pushes
NewEntry(m, c, d) ==
    [mintAddress |-> m, chatId |-> c,
     name |-> IF d.name = None THEN "Unnamed NFT" ELSE d.name[1],
     collection |-> d.collection,
     lastPrice |-> None, alertPrice |-> None]

\* a push at the wrong end
PushFront(arr, x) == <<x>> \o arr

\* array.push(x)
Push(arr, x) == Append(arr, x)

\* a pop in the place of the splice removes the last element
SpliceLast(arr, i) == SubSeq(arr, 1, Len(arr) - 1)

\* a splice without its delete count removes the rest of the array
SpliceRest(arr, i) == SubSeq(arr, 1, i - 1)

\* array.splice(index, 1)
Splice(arr, i) == SubSeq(arr, 1, i - 1) \o SubSeq(arr, i + 1, Len(arr))

\* Object identities carry no meaning of their own: after every step the
\* objects are renamed so that the registry is <<1, .., n>>, followed by the
\* objects that only a suspended evaluator callback or a suspended /list
\* handler still refers to; an object nothing refers to is garbage and its
\* slot is Free.
Detached(arr, cyc) ==
    SelectSeq([k \in 1..MaxOverlap |-> k],
              LAMBDA k : /\ cyc[k].nft # 0
                         /\ cyc[k].nft \notin Range(arr)
                         /\ \A j \in 1..(k - 1) : cyc[j].nft # cyc[k].nft)

\* the objects of a /list handler's snapshot that nothing in held refers to
Listed(held, ls) ==
    SelectSeq([i \in 1..Len(ls.userNFTs) |-> i],
              LAMBDA i : /\ ls.userNFTs[i] \notin Range(held)
                         /\ \A j \in 1..(i - 1) : ls.userNFTs[j] # ls.userNFTs[i])

Collect(h, arr, cyc, ls) ==
    LET det == Detached(arr, cyc)
        held == arr \o [i \in 1..Len(det) |-> cyc[det[i]].nft]
        lst == Listed(held, ls)
        order == held \o [i \in 1..Len(lst) |-> ls.userNFTs[lst[i]]]
        pos(o) == CHOOSE i \in 1..Len(order) : order[i] = o
    IN [heap |-> [o \in 1..MaxObjs |-> IF o <= Len(order) THEN h[order[o]] ELSE Free],
        arr |-> [i \in 1..Len(arr) |-> i],
        cycles |-> [k \in 1..MaxOverlap |->
                      [cyc[k] EXCEPT !.nft = IF @ = 0 THEN 0 ELSE pos(@)]],
        lists |-> [ls EXCEPT !.userNFTs = [i \in 1..Len(@) |-> pos(@[i])]]]

Commit(h, arr, cyc, ls) ==
    LET n == Collect(h, arr, cyc, ls)
    IN /\ heap' = n.heap
       /\ trackedNFTs' = n.arr
       /\ cycles' = n.cycles
       /\ lists' = n.lists

FreeOids == {o \in 1..MaxObjs : heap[o] = Free}
Alloc == CHOOSE o \in FreeOids : \A p \in FreeOids : o <= p

Msg(to, kind) == [to |-> to, kind |-> kind]

Ev(op, m, c, p, o, out) ==
    [op |-> op, mint |-> m, chat |-> c, price |-> p, oid |-> o, out |-> out]

Req(pc, m, c) == [pc |-> pc, mint |-> m, chat |-> c]
Fetching == {q \in BagToSet(reqs) : q.pc = "fetching"}
Sending == {q \in BagToSet(reqs) : q.pc = "sending"}
One(q) == SetToBag({q})

\* the number of entries already pushed or about to be
Claimed ==
    Cardinality((1..MaxObjs) \ FreeOids)
        + BagCardinality([q \in Fetching |-> reqs[q]])

IdleCycle == [pc |-> "idle", idx |-> 0, nft |-> 0]

IdleList == [pc |-> "idle", chat |-> 0, userNFTs |-> <<>>, idx |-> 0, message |-> <<>>]

\* the reply of /list: one line per entry
ListMsg(to, lines) == [to |-> to, kind |-> "list", lines |-> lines]

\* the conversation of one chat that the model follows from a request to the
\* replies: which chat and mint, the chat's entries when it started, how far
\* it has got, and what the two /list replies were
NoE2E == [pc |-> "off", chat |-> 0, mint |-> "", before |-> <<>>,
          shown |-> <<>>, shownAfter |-> <<>>]

\* what a step of a handler, described by ev, means to the conversation s
Step(s, ev) ==
    IF s.pc \in {"off", "done", "aborted"} \/ ev.chat # s.chat THEN s
    ELSE IF s.pc = "armed" /\ ev.op = "track" /\ ev.mint = s.mint /\ ev.out = <<>>
    THEN [s EXCEPT !.pc = "tracking"]
    ELSE IF s.pc = "tracking" /\ ev.op = "trackPush"
    THEN [s EXCEPT !.pc = "pushed"]
    ELSE IF s.pc = "pushed" /\ ev.op = "trackEnd" /\ ev.out = <<Msg(s.chat, "tracked")>>
    THEN [s EXCEPT !.pc = "tracked"]
    ELSE IF s.pc = "tracked" /\ ev.op = "list" /\ ev.out = <<>>
    THEN [s EXCEPT !.pc = "listing"]
    ELSE IF s.pc = "listing" /\ ev.op = "listReply"
    THEN [s EXCEPT !.pc = "listed", !.shown = ev.out]
    ELSE IF s.pc = "listed" /\ ev.op = "untrack" /\ ev.mint = s.mint
    THEN [s EXCEPT !.pc = "untracked"]
    ELSE IF s.pc = "untracked" /\ ev.op = "list" /\ ev.out = <<>>
    THEN [s EXCEPT !.pc = "listingAfter"]
    ELSE IF s.pc = "untracked" /\ ev.op = "list"
    THEN [s EXCEPT !.pc = "done", !.shownAfter = ev.out]
    ELSE IF s.pc = "listingAfter" /\ ev.op = "listReply"
    THEN [s EXCEPT !.pc = "done", !.shownAfter = ev.out]
    ELSE [NoE2E EXCEPT !.pc = "aborted"]

\* every handler step is seen by the conversation it belongs to
Observe == e2e' = Step(e2e, last')

(***************************************************************************)
(* /track                                                                  *)
(***************************************************************************)
\* the handler up to its first await: argument check, duplicate check;
\* cap bounds the entries the model lets the registry grow to
TrackCmd(m, c, cap) ==
    /\ IF m = NoArg
       THEN /\ last' = Ev("track", m, c, 0, 0, <<Msg(c, "usage")>>)
            /\ UNCHANGED reqs
       ELSE IF IsTracked(m, c)
       THEN /\ last' = Ev("track", m, c, 0, 0, <<Msg(c, "already")>>)
            /\ UNCHANGED reqs
       ELSE /\ BagCardinality(reqs) < MaxReqs
            /\ Claimed < cap
            /\ reqs' = reqs (+) One(Req("fetching", m, c))
            /\ last' = Ev("track", m, c, 0, 0, <<>>)
    /\ Observe
    /\ UNCHANGED <<heap, trackedNFTs, cycles, rf, wt>>
    /\ UNCHANGED <<lists, collVars, saleVars, procVars>>

\* the token fetch and its JSON parse succeeded: push the entry
TrackFetched(q) ==
    /\ q \in Fetching
    /\ LET o == Alloc
           nftData == Metadata(q.mint)
       IN /\ Commit([heap EXCEPT ![o] = NewEntry(q.mint, q.chat, nftData)],
                    Push(trackedNFTs, o), cycles, lists)
          /\ last' = Ev("trackPush", q.mint, q.chat, 0, Len(trackedNFTs) + 1, <<>>)
    /\ reqs' = (reqs (-) One(q)) (+) One(Req("sending", q.mint, q.chat))
    /\ Observe
    /\ UNCHANGED <<rf, wt, collVars, saleVars, procVars>>

\* the token fetch threw after its retries, or the body did not parse
TrackFetchFailed(q) ==
    /\ q \in Fetching
    /\ reqs' = reqs (-) One(q)
    /\ last' = Ev("trackEnd", q.mint, q.chat, 0, 0, <<Msg(q.chat, "failed")>>)
    /\ Observe
    /\ UNCHANGED <<heap, trackedNFTs, cycles, rf, wt>>
    /\ UNCHANGED <<lists, collVars, saleVars, procVars>>

\* the confirmation was delivered
TrackSent(q) ==
    /\ q \in Sending
    /\ reqs' = reqs (-) One(q)
    /\ last' = Ev("trackEnd", q.mint, q.chat, 0, 0, <<Msg(q.chat, "tracked")>>)
    /\ Observe
    /\ UNCHANGED <<heap, trackedNFTs, cycles, rf, wt>>
    /\ UNCHANGED <<lists, collVars, saleVars, procVars>>

\* sending the confirmation threw: the catch block replies with the failure
TrackSendFailed(q) ==
    /\ q \in Sending
    /\ reqs' = reqs (-) One(q)
    /\ last' = Ev("trackEnd", q.mint, q.chat, 0, 0, <<Msg(q.chat, "failed")>>)
    /\ Observe
    /\ UNCHANGED <<heap, trackedNFTs, cycles, rf, wt>>
    /\ UNCHANGED <<lists, collVars, saleVars, procVars>>

(***************************************************************************)
(* /untrack and /alert: synchronous handlers                               *)
(***************************************************************************)
Untrack(m, c) ==
    /\ IF m = NoArg
       THEN /\ last' = Ev("untrack", m, c, 0, 0, <<Msg(c, "usage")>>)
            /\ UNCHANGED <<heap, trackedNFTs, cycles, lists>>
       ELSE LET index == FindIndex(m, c) IN
            IF index = 0
            THEN /\ last' = Ev("untrack", m, c, 0, 0, <<Msg(c, "nottracked")>>)
                 /\ UNCHANGED <<heap, trackedNFTs, cycles, lists>>
            ELSE /\ Commit(heap, Splice(trackedNFTs, index), cycles, lists)
                 /\ last' = Ev("untrack", m, c, 0, index, <<Msg(c, "untracked")>>)
    /\ Observe
    /\ UNCHANGED <<reqs, rf, wt, collVars, saleVars, procVars>>

\* an assignment that keeps an alert that is already set
SetAlertOnce(e, price) ==
    [e EXCEPT !.alertPrice = IF @ = None THEN price ELSE @]

\* trackedNFTs[nftIndex].alertPrice = price
SetAlert(e, price) == [e EXCEPT !.alertPrice = price]

Alert(m, c, price) ==
    /\ IF m = NoArg \/ price = None
       THEN /\ last' = Ev("alert", m, c, 0, 0, <<Msg(c, "usage")>>)
            /\ UNCHANGED heap
       ELSE LET nftIndex == FindIndex(m, c) IN
            IF nftIndex = 0
            THEN /\ last' = Ev("alert", m, c, 0, 0, <<Msg(c, "trackfirst")>>)
                 /\ UNCHANGED heap
            ELSE /\ heap' = [heap EXCEPT ![trackedNFTs[nftIndex]] = SetAlert(@, price)]
                 /\ last' = Ev("alert", m, c, price[1], nftIndex, <<Msg(c, "alertset")>>)
    /\ Observe
    /\ UNCHANGED <<trackedNFTs, reqs, cycles, rf, wt>>
    /\ UNCHANGED <<lists, collVars, saleVars, procVars>>

\* Number.POSITIVE_INFINITY, as the largest number there is
Infinity == 2147483647

\* the third word of the /alert message; the empty text is a missing word
PriceTexts == {"", "abc", "1", "0", "-1", "Infinity"}

\* parseFloat(priceStr): the number the text starts with, None (NaN) when
\* it starts with none
ParseFloat(priceStr) ==
    CASE priceStr = "1" -> Some(1)
      [] priceStr = "0" -> Some(0)
      [] priceStr = "-1" -> Some(0 - 1)
      [] priceStr = "Infinity" -> Some(Infinity)
      [] OTHER -> None

\* /alert <mint> <priceStr>
AlertText(m, c, priceStr) == Alert(m, c, ParseFloat(priceStr))

(***************************************************************************)
(* /list                                                                   *)
(***************************************************************************)
\* a filter that lets every entry through
OwnedByAny(e, c) == TRUE

\* nft => nft.chatId === ctx.chat.id
Owned(e, c) == e.chatId = c

\* the part of the reply that is about one entry: the fetched data or the
\* error note, and the alert line when the entry has a (truthy) alertPrice
ListLine(nft, ok) ==
    [mint |-> nft.mintAddress,
     data |-> IF ok THEN "ok" ELSE "error",
     alert |-> IF ok /\ Truthy(nft.alertPrice) THEN nft.alertPrice ELSE None]

\* the handler up to its first await: the filter, the empty reply
ListCmd(c) ==
    /\ lists.pc = "idle"
    /\ LET userNFTs == SelectSeq(trackedNFTs, LAMBDA o : Owned(heap[o], c))
       IN IF Len(userNFTs) = 0
          THEN /\ last' = Ev("list", "", c, 0, 0, <<Msg(c, "nolist")>>)
               /\ UNCHANGED lists
          ELSE /\ lists' = [pc |-> "fetch", chat |-> c, userNFTs |-> userNFTs,
                            idx |-> 1, message |-> <<>>]
               /\ last' = Ev("list", "", c, 0, 0, <<>>)
    /\ Observe
    /\ UNCHANGED <<heap, trackedNFTs, reqs, cycles, rf, wt>>
    /\ UNCHANGED <<collVars, saleVars, procVars>>

\* the token fetch of the current entry returned (ok) or threw: its line is
\* added, and after the last entry the message is sent
ListFetched(ok) ==
    /\ lists.pc = "fetch"
    /\ LET nft == heap[lists.userNFTs[lists.idx]]
           message == Append(lists.message, ListLine(nft, ok))
       IN IF lists.idx < Len(lists.userNFTs)
          THEN /\ lists' = [lists EXCEPT !.idx = @ + 1, !.message = message]
               /\ UNCHANGED <<heap, trackedNFTs, cycles, last, e2e>>
          ELSE /\ Commit(heap, trackedNFTs, cycles, IdleList)
               /\ last' = Ev("listReply", "", lists.chat, 0, 0,
                             <<ListMsg(lists.chat, message)>>)
               /\ Observe
    /\ UNCHANGED <<reqs, rf, wt, collVars, saleVars, procVars>>

(***************************************************************************)
(* A chat that sends /track m, /list, /untrack m, /list, each after the    *)
(* reply to the one before                                                 *)
(***************************************************************************)
\* the entries of chat c, in registry order
EntriesOf(reg, c) == SelectSeq(reg, LAMBDA e : e.chatId = c)

\* chat c, which does not track m and has no request in flight, starts
Arm(m, c) ==
    /\ e2e.pc = "off"
    /\ ~IsTracked(m, c)
    /\ \A q \in BagToSet(reqs) : q.chat # c
    /\ lists.chat # c
    /\ e2e' = [NoE2E EXCEPT !.pc = "armed", !.chat = c, !.mint = m,
                            !.before = EntriesOf(Reg, c)]
    /\ UNCHANGED <<heap, trackedNFTs, reqs, cycles, last, rf, wt>>
    /\ UNCHANGED <<lists, collVars, saleVars, procVars>>

\* chat c sends what it likes
Unscripted(c) == e2e.pc = "off" \/ e2e.chat # c

\* chat c has got to one of the stages pcs, with mint m
Scripted(m, c, pcs) == e2e.chat = c /\ e2e.mint = m /\ e2e.pc \in pcs

(***************************************************************************)
(* The collection registry, /collection and the collection poller          *)
(***************************************************************************)
\* Object.entries(trackedCollections): the keys in insertion order
Keys(reg) == [i \in 1..Len(reg) |-> reg[i].symbol]

\* an assignment that keeps the name and the link of the entry it replaces
StoreMerged(reg, snapshot) ==
    IF \E i \in 1..Len(reg) : reg[i].symbol = snapshot.symbol
    THEN [i \in 1..Len(reg) |->
             IF reg[i].symbol = snapshot.symbol
             THEN [snapshot EXCEPT !.name = reg[i].name,
                                   !.marketplace_url = reg[i].marketplace_url]
             ELSE reg[i]]
    ELSE Append(reg, snapshot)

\* trackedCollections[symbol] = snapshot: a new key goes last, an old one
\* keeps its place
Store(reg, snapshot) ==
    IF \E i \in 1..Len(reg) : reg[i].symbol = snapshot.symbol
    THEN [i \in 1..Len(reg) |->
             IF reg[i].symbol = snapshot.symbol THEN snapshot ELSE reg[i]]
    ELSE Append(reg, snapshot)

\* stats?.field || 0
StatOr0(stats, field) == IF stats = None THEN 0 ELSE OrElse(stats[1][field], 0)

\* the object literal that trackCollectionActivity stores
SnapshotOf(symbol, result, now) ==
    [symbol |-> symbol, name |-> None, marketplace_url |-> None,
     floorPrice |-> StatOr0(result.stats, "floorPrice"),
     volume24h |-> StatOr0(result.stats, "volumeAll"),
     listedCount |-> StatOr0(result.stats, "listedCount"),
     lastSale |-> IF Len(result.assets) > 0
                  THEN Some([price |-> OrElse(result.assets[1].price, 0),
                             timestamp |-> OrElse(result.assets[1].createdAt, now),
                             tokenMint |-> IF result.assets[1].tokenMint = None THEN ""
                                           ELSE result.assets[1].tokenMint[1]])
                  ELSE None]

\* the object literal that /trench stores; it reads assets[0].timestamp and
\* assets[0].mint, fields the activities of the marketplace do not have
TrenchSnapshot(result, now) ==
    [symbol |-> TRENCH_DEMONS.symbol, name |-> Some(TRENCH_DEMONS.name),
     marketplace_url |-> Some(TRENCH_DEMONS.marketplace_url),
     floorPrice |-> StatOr0(result.stats, "floorPrice"),
     volume24h |-> StatOr0(result.stats, "volumeAll"),
     listedCount |-> StatOr0(result.stats, "listedCount"),
     lastSale |-> IF Len(result.assets) > 0
                  THEN Some([price |-> OrElse(result.assets[1].price, 0),
                             timestamp |-> now,
                             tokenMint |-> ""])
                  ELSE None]

\* getCollectionSubscribers: filter by collection, map to chatId
GetCollectionSubscribers(reg, symbol) ==
    LET all == SelectSeq(reg, LAMBDA nft : nft.collection = Some(symbol))
    IN [i \in 1..Len(all) |-> all[i].chatId]

\* a pipeline that goes on with whatever it was given
NeverEmpty(assets) == FALSE

\* if (assets.length === 0) return
IsEmpty(assets) == Len(assets) = 0

\* what getAssetsByGroup returns from its catch block
FailedResult == [assets |-> <<>>, stats |-> None]

IdlePipe == [pc |-> "idle", by |-> "", symbol |-> "", chat |-> 0,
             rest |-> <<>>, stats |-> None]

FreePipes == {k \in 1..MaxPipes : colls[k].pc = "idle"}

\* The history of the fetches: preceded holds <<j, k>> when pipeline j had
\* sent both its requests for a symbol before pipeline k started on the same
\* symbol; stale holds j once such a k has stored its result.
NoneIssued == [preceded |-> {}, stale |-> {}]

Retire(g, k) ==
    [preceded |-> {p \in g.preceded : p[1] # k /\ p[2] # k}, stale |-> g.stale \ {k}]

Issue(g, k, symbol) ==
    [Retire(g, k) EXCEPT !.preceded =
        @ \cup {<<j, k>> : j \in {i \in 1..MaxPipes \ {k} :
                                     /\ colls[i].pc = "activities"
                                     /\ colls[i].symbol = symbol}}]

Overtake(g, k) ==
    [g EXCEPT !.stale = @ \cup {p[1] : p \in {q \in g.preceded : q[2] = k}}]

\* pipeline k has returned, having stored its result or not, and its
\* caller goes on as next
Completed(g, k, stored, next) ==
    LET h == IF stored THEN Overtake(g, k) ELSE g
    IN IF next.pc = "idle" THEN Retire(h, k) ELSE Issue(h, k, next.symbol)

\* the caller of trackCollectionActivity goes on: /collection replies, the
\* poller takes the next key of its cycle
Resume(pipe) ==
    IF pipe.by = "poller" /\ pipe.rest # <<>>
    THEN [pipe EXCEPT !.pc = "stats", !.symbol = Head(pipe.rest),
                      !.rest = Tail(pipe.rest), !.stats = None]
    ELSE IdlePipe

Reply(pipe) ==
    IF pipe.by = "command" THEN <<Msg(pipe.chat, "nowtracking")>> ELSE <<>>

\* trackCollectionActivity after getAssetsByGroup has returned result; the
\* step is labelled with the pipeline's outcome op and the number of assets
Tracked(k, result, op, now) ==
    LET pipe == colls[k]
        subscribers == GetCollectionSubscribers(Reg, pipe.symbol)
        notes == [i \in 1..Len(subscribers) |-> Msg(subscribers[i], "collupdate")]
    IN /\ colls' = [colls EXCEPT ![k] = Resume(pipe)]
       /\ issued' = Completed(issued, k, ~IsEmpty(result.assets), Resume(pipe))
       /\ IF IsEmpty(result.assets)
          THEN /\ UNCHANGED <<trackedCollections, sends>>
               /\ last' = Ev(op, pipe.symbol, pipe.chat, 0, 0, Reply(pipe))
          ELSE /\ sends + Len(notes) <= MaxSends
               /\ trackedCollections' =
                      Store(trackedCollections, SnapshotOf(pipe.symbol, result, now))
               /\ sends' = sends + Len(notes)
               /\ last' = Ev(op, pipe.symbol, pipe.chat, Len(result.assets), 0,
                             notes \o Reply(pipe))

\* /trench after getAssetsByGroup has returned result: without stats it
\* replies that it could not fetch, else it stores the entry and replies
Trenched(k, result, op) ==
    LET pipe == colls[k]
    IN /\ colls' = [colls EXCEPT ![k] = IdlePipe]
       /\ issued' = Completed(issued, k, result.stats # None, IdlePipe)
       /\ UNCHANGED sends
       /\ IF result.stats = None
          THEN /\ UNCHANGED trackedCollections
               /\ last' = Ev(op, pipe.symbol, pipe.chat, 0, 0,
                             <<Msg(pipe.chat, "couldnotfetch")>>)
          ELSE /\ \E now \in Clock :
                     trackedCollections' =
                         Store(trackedCollections, TrenchSnapshot(result, now))
               /\ last' = Ev(op, pipe.symbol, pipe.chat, Len(result.assets), 0,
                             <<Msg(pipe.chat, "nowtracking")>>)

\* getAssetsByGroup has returned result to its caller
Returned(k, result, op) ==
    IF colls[k].by = "trench"
    THEN Trenched(k, result, op)
    ELSE \E now \in Clock : Tracked(k, result, op, now)

\* /trench: the first reply is sent and awaited
TrenchCmd(c) ==
    /\ FreePipes # {}
    /\ LET k == CHOOSE j \in FreePipes : \A i \in FreePipes : j <= i
       IN colls' = [colls EXCEPT ![k] =
                       [IdlePipe EXCEPT !.pc = "greeting", !.by = "trench",
                                        !.symbol = TRENCH_DEMONS.symbol, !.chat = c]]
    /\ last' = Ev("trench", TRENCH_DEMONS.symbol, c, 0, 0, <<Msg(c, "fetching")>>)
    /\ UNCHANGED <<heap, trackedNFTs, reqs, cycles, rf, wt>>
    /\ UNCHANGED <<listVars, trackedCollections, issued, saleVars, procVars>>

\* the first reply of /trench was delivered: the stats request is sent
TrenchGreeted(k) ==
    /\ colls[k].pc = "greeting"
    /\ colls' = [colls EXCEPT ![k].pc = "stats"]
    /\ issued' = Issue(issued, k, colls[k].symbol)
    /\ last' = Ev("trenchGreeted", colls[k].symbol, colls[k].chat, 0, 0, <<>>)
    /\ UNCHANGED <<heap, trackedNFTs, reqs, cycles, rf, wt>>
    /\ UNCHANGED <<listVars, trackedCollections, saleVars, procVars>>

\* the first reply of /trench was rejected: the catch block replies
TrenchGreetFailed(k) ==
    /\ colls[k].pc = "greeting"
    /\ colls' = [colls EXCEPT ![k] = IdlePipe]
    /\ last' = Ev("trenchFailed", colls[k].symbol, colls[k].chat, 0, 0,
                  <<Msg(colls[k].chat, "failed")>>)
    /\ UNCHANGED <<heap, trackedNFTs, reqs, cycles, rf, wt>>
    /\ UNCHANGED <<listVars, trackedCollections, issued, saleVars, procVars>>

\* /collection <address>
CollectionCmd(symbol, c) ==
    /\ IF symbol = NoArg
       THEN /\ last' = Ev("collection", symbol, c, 0, 0, <<Msg(c, "usage")>>)
            /\ UNCHANGED <<colls, issued>>
       ELSE /\ FreePipes # {}
            /\ LET k == CHOOSE j \in FreePipes : \A i \in FreePipes : j <= i
               IN /\ colls' = [colls EXCEPT ![k] =
                                  [IdlePipe EXCEPT !.pc = "stats", !.by = "command",
                                                   !.symbol = symbol, !.chat = c]]
                  /\ issued' = Issue(issued, k, symbol)
            /\ last' = Ev("collection", symbol, c, 0, 0, <<>>)
    /\ UNCHANGED <<heap, trackedNFTs, reqs, cycles, rf, wt>>
    /\ UNCHANGED <<listVars, trackedCollections, saleVars, procVars>>

\* the 5-minute timer fires: the callback takes the entries of the registry
\* and starts on the first
PollerStart ==
    /\ trackedCollections # <<>>
    /\ FreePipes # {}
    /\ LET k == CHOOSE j \in FreePipes : \A i \in FreePipes : j <= i
       IN /\ colls' = [colls EXCEPT ![k] =
                          Resume([IdlePipe EXCEPT !.by = "poller",
                                                  !.rest = Keys(trackedCollections)])]
          /\ issued' = Issue(issued, k, Head(Keys(trackedCollections)))
    /\ last' = Ev("pollCollections", "", 0, 0, 0, <<>>)
    /\ UNCHANGED <<heap, trackedNFTs, reqs, cycles, rf, wt>>
    /\ UNCHANGED <<listVars, trackedCollections, saleVars, procVars>>

\* the stats request returned a body: the activities request is sent
StatsFetched(k, stats) ==
    /\ colls[k].pc = "stats"
    /\ colls' = [colls EXCEPT ![k].pc = "activities", ![k].stats = Some(stats)]
    /\ last' = Ev("collStats", colls[k].symbol, colls[k].chat, 0, 0, <<>>)
    /\ UNCHANGED <<heap, trackedNFTs, reqs, cycles, rf, wt>>
    /\ UNCHANGED <<listVars, trackedCollections, issued, saleVars, procVars>>

\* the stats request failed after its retries, or its body did not parse
StatsFailed(k) ==
    /\ colls[k].pc = "stats"
    /\ Returned(k, FailedResult, "collFailed")
    /\ UNCHANGED <<heap, trackedNFTs, reqs, cycles, rf, wt>>
    /\ UNCHANGED <<listVars, saleVars, proc>>

\* the activities request returned the list data
ActivitiesFetched(k, data) ==
    /\ colls[k].pc = "activities"
    /\ Returned(k, [assets |-> data, stats |-> colls[k].stats], "collFetched")
    /\ UNCHANGED <<heap, trackedNFTs, reqs, cycles, rf, wt>>
    /\ UNCHANGED <<listVars, saleVars, proc>>

\* the activities request failed after its retries, or its body did not parse
ActivitiesFailed(k) ==
    /\ colls[k].pc = "activities"
    /\ Returned(k, FailedResult, "collFailed")
    /\ UNCHANGED <<heap, trackedNFTs, reqs, cycles, rf, wt>>
    /\ UNCHANGED <<listVars, saleVars, proc>>

\* an unawaited sendMessage is delivered
SendDelivered ==
    /\ sends > 0
    /\ sends' = sends - 1
    /\ UNCHANGED <<heap, trackedNFTs, reqs, cycles, last, rf, wt>>
    /\ UNCHANGED <<listVars, collVars, saleVars, proc>>

\* an unawaited sendMessage is rejected (the chat blocked the bot, the
\* network is down): nothing awaits or catches the promise and the process
\* has no unhandledRejection handler, so the runtime decides: it warns and
\* goes on, or it ends the process, and with it every timer and cron job
SendRejected(exits) ==
    /\ sends > 0
    /\ sends' = sends - 1
    /\ proc' = IF exits THEN "exited" ELSE proc
    /\ UNCHANGED <<heap, trackedNFTs, reqs, cycles, last, rf, wt>>
    /\ UNCHANGED <<listVars, collVars, saleVars>>

\* timers and handlers run as long as the process does
Running == proc = "running"

(***************************************************************************)
(* The sale notifier: lastBuy(collectionSymbol, limit, ctx) and            *)
(* safelySendImage                                                         *)
(***************************************************************************)
\* the sinks the callers pass: the chat context of /lastbuy, and
\* bot.telegram.sendPhoto bound to a chat id (the scheduled job)
Sinks == {"context", "binding"}

\* the caps the callers pass: /lastbuy 1, the scheduled job 5
Limits == {1, 5}

\* activity.blockTime of a buy, in seconds; None when the field is missing
BlockTimes == {None, Some(80), Some(139), Some(140), Some(170)}

\* the bodies of the activities response that are lists
ActivityLists == UNION {[1..n -> BlockTimes] : n \in 0..MaxActivities}

\* Math.floor(Date.now() / 1000)
Seconds(now) == now \div 1000

\* a window that leaves out the activity that is exactly one minute old
RecentStrict(blockTime, oneMinuteAgo) ==
    Truthy(blockTime) /\ blockTime[1] > oneMinuteAgo

\* activity.blockTime && activity.blockTime >= oneMinuteAgo
Recent(blockTime, oneMinuteAgo) ==
    Truthy(blockTime) /\ blockTime[1] >= oneMinuteAgo

\* activities.filter(...), as the positions of the activities it keeps
RecentActivities(activities, now) ==
    SelectSeq([i \in 1..Len(activities) |-> i],
              LAMBDA i : Recent(activities[i], Seconds(now) - 60))

\* a loop over the whole list
SliceAll(list, limit) == list

\* list.slice(0, limit)
Slice(list, limit) == SubSeq(list, 1, IF limit < Len(list) THEN limit ELSE Len(list))

\* one call of the sink: for which sale (0: none), which of the sink's
\* functions, what is sent, and how the awaited call ended; late tells what
\* became of a call that was still in flight when its deadline passed
Call(s, api, payload) ==
    [sale |-> s, api |-> api, payload |-> payload, outcome |-> "pending", late |-> ""]

\* the function of the sink that a send goes through: the binding is one
\* function (sendPhoto), the context has replyWithPhoto and reply
Api(sink, payload) ==
    IF sink = "binding" THEN "sendPhoto"
    ELSE IF payload = "image" THEN "replyWithPhoto" ELSE "reply"

\* ctx.reply exists on the context only: on the binding the call is a
\* TypeError, thrown before anything is sent
HasReply(sink) == sink = "context"

IdleSale == [pc |-> "idle", sink |-> "", limit |-> 0, now |-> 0,
             activities |-> None, recent |-> <<>>, queue |-> <<>>, cur |-> 0,
             processed |-> <<>>, sent |-> <<>>]

\* a routine that goes from the image straight to the text
AfterSkipping(pc, outcome) ==
    IF outcome = "ok" THEN "delay"
    ELSE IF pc = "image" THEN "text" ELSE "delay"

\* safelySendImage: where it goes when the awaited send of method pc ended
After(pc, outcome) ==
    IF outcome = "ok" THEN "delay"
    ELSE IF pc = "image" THEN "preview"
    ELSE IF pc = "preview" THEN "text"
    ELSE "delay"

\* the sends that are awaited under withTimeout
Guarded(pc) == pc \in {"image", "preview"}

\* a loop that ends when the last send was not delivered
NextSaleIfDelivered(r) ==
    IF r.queue = <<>> \/ (r.sent # <<>> /\ r.sent[Len(r.sent)].outcome # "ok")
    THEN [r EXCEPT !.pc = "done", !.cur = 0]
    ELSE [r EXCEPT !.pc = "details", !.cur = Head(r.queue), !.queue = Tail(r.queue)]

\* the for loop takes the next sale of the slice, or the invocation ends
NextSale(r) ==
    IF r.queue = <<>>
    THEN [r EXCEPT !.pc = "done", !.cur = 0]
    ELSE [r EXCEPT !.pc = "details", !.cur = Head(r.queue), !.queue = Tail(r.queue)]

\* The history of the invocations: at is Date.now() of the latest one that
\* got its activities, sales holds <<sink, blockTime>> for every sale of
\* which an earlier invocation delivered a notification through the sink.
NoneTold == [at |-> 0, sales |-> {}]

\* the sales of which invocation r has delivered a notification, in time
\* or late
ToldBy(r) ==
    IF r.activities = None THEN {}
    ELSE {<<r.sink, r.activities[1][c.sale][1]>> :
             c \in {d \in Range(r.sent) :
                       /\ d.sale # 0
                       /\ d.outcome = "ok" \/ d.late = "delivered"}}

\* the history once the invocation in sale is over
Recorded ==
    [at |-> IF sale.now > told.at THEN sale.now ELSE told.at,
     sales |-> told.sales \cup ToldBy(sale)]

\* an invocation starts: the activities request is sent; history is what
\* is remembered of the invocations before it
Started(sink, limit, history) ==
    /\ sale.pc \in {"idle", "done"}
    /\ sale' = [IdleSale EXCEPT !.pc = "fetch", !.sink = sink, !.limit = limit]
    /\ told' = history
    /\ UNCHANGED <<heap, trackedNFTs, reqs, cycles, last, rf, wt>>
    /\ UNCHANGED <<listVars, collVars, procVars>>

\* the invocation starts: the activities request is sent
LastBuy(sink, limit) == Started(sink, limit, told)

\* the activities request returned a list: filter, slice, first sale
ActivitiesArrived(activities, now) ==
    /\ sale.pc = "fetch"
    /\ LET recentActivities == RecentActivities(activities, now)
           r == [sale EXCEPT !.activities = Some(activities), !.now = now,
                             !.recent = recentActivities]
       IN sale' = IF Len(recentActivities) = 0
                  THEN [r EXCEPT !.pc = "done"]
                  ELSE NextSale([r EXCEPT !.queue = Slice(recentActivities, sale.limit)])
    /\ UNCHANGED <<heap, trackedNFTs, reqs, cycles, last, rf, wt>>
    /\ UNCHANGED <<listVars, collVars, told, procVars>>

\* the activities request failed after its retries, or its body is not a
\* list: the catch block replies with the failure through ctx.reply
ActivitiesMissing ==
    /\ sale.pc = "fetch"
    /\ sale' = IF HasReply(sale.sink)
               THEN [sale EXCEPT !.pc = "error",
                                 !.sent = Append(@, Call(0, Api(sale.sink, "error"), "error"))]
               ELSE [sale EXCEPT !.pc = "done"]
    /\ UNCHANGED <<heap, trackedNFTs, reqs, cycles, last, rf, wt>>
    /\ UNCHANGED <<listVars, collVars, told, procVars>>

\* the details of the sold token: image tells whether they gave an image URL
\* (they give none when the request failed or the body has no name); the
\* first send for the sale is made
Details(image) ==
    /\ sale.pc = "details"
    /\ sale' = IF image
               THEN [sale EXCEPT !.pc = "image",
                                 !.sent = Append(@, Call(sale.cur, Api(sale.sink, "image"), "image"))]
               ELSE IF HasReply(sale.sink)
               THEN [sale EXCEPT !.pc = "text",
                                 !.sent = Append(@, Call(sale.cur, Api(sale.sink, "text"), "text"))]
               ELSE [sale EXCEPT !.pc = "delay"]
    /\ UNCHANGED <<heap, trackedNFTs, reqs, cycles, last, rf, wt>>
    /\ UNCHANGED <<listVars, collVars, told, procVars>>

\* the awaited send ended: delivered (ok), rejected (failed), or - under
\* withTimeout - still in flight when the deadline passed (timeout); the
\* routine goes on to the next method or to the pause after the sale
SendEnded(outcome) ==
    /\ sale.pc \in {"image", "preview", "text", "error"}
    /\ outcome = "timeout" => Guarded(sale.pc)
    /\ LET n == Len(sale.sent)
           to == IF sale.pc = "error" THEN "done" ELSE After(sale.pc, outcome)
           r == [sale EXCEPT !.sent[n].outcome = outcome, !.pc = to]
       IN sale' = IF to \in {"preview", "text"}
                  THEN [r EXCEPT !.sent = Append(@, Call(sale.cur, Api(sale.sink, to), to))]
                  ELSE r
    /\ UNCHANGED <<heap, trackedNFTs, reqs, cycles, last, rf, wt>>
    /\ UNCHANGED <<listVars, collVars, told, procVars>>

\* the 300 ms pause after a sale is over: processedCount++, next sale
DelayDone ==
    /\ sale.pc = "delay"
    /\ sale' = NextSale([sale EXCEPT !.processed = Append(@, sale.cur)])
    /\ UNCHANGED <<heap, trackedNFTs, reqs, cycles, last, rf, wt>>
    /\ UNCHANGED <<listVars, collVars, told, procVars>>

\* a send that was in flight when its deadline passed ends after all
LateEnded(i, how) ==
    /\ i \in 1..Len(sale.sent)
    /\ sale.sent[i].outcome = "timeout"
    /\ sale.sent[i].late = ""
    /\ sale' = [sale EXCEPT !.sent[i].late = how]
    /\ UNCHANGED <<heap, trackedNFTs, reqs, cycles, last, rf, wt>>
    /\ UNCHANGED <<listVars, collVars, told, procVars>>

(***************************************************************************)
(* The alert evaluator: setInterval(async () => { for (const nft of ...) })*)
(***************************************************************************)
\* the array iterator's next(): it reads the array's current length
Advance(cy, arr) ==
    IF cy.idx < Len(arr)
    THEN [pc |-> "fetch", idx |-> cy.idx + 1, nft |-> arr[cy.idx + 1]]
    ELSE IdleCycle

\* a strict comparison with the threshold
TriggersBelow(alertPrice, currentPrice) ==
    /\ Truthy(alertPrice)
    /\ currentPrice > 0
    /\ currentPrice < alertPrice[1] * LAMPORTS

\* nft.alertPrice && currentPrice > 0 && currentPrice <= nft.alertPrice * 1e9
Triggers(alertPrice, currentPrice) ==
    /\ Truthy(alertPrice)
    /\ currentPrice > 0
    /\ currentPrice <= alertPrice[1] * LAMPORTS

\* the messages the evaluator sends for one entry
AlertMessages(e, currentPrice) ==
    IF Triggers(e.alertPrice, currentPrice)
    THEN <<Msg(e.chatId, "pricealert")>>
    ELSE <<>>

\* an evaluator that leaves the alert armed after it has triggered
EvaluatedArmed(e, currentPrice) ==
    [e EXCEPT !.lastPrice = Some(currentPrice)]

\* the entry after the evaluator has looked at a fetched price
Evaluated(e, currentPrice) ==
    [e EXCEPT !.alertPrice = IF Triggers(e.alertPrice, currentPrice) THEN None ELSE @,
              !.lastPrice = Some(currentPrice)]

\* the timer fires: a new callback starts and suspends on its first fetch
CycleStart(k) ==
    /\ cycles[k].pc = "idle"
    /\ Commit(heap, trackedNFTs,
              [cycles EXCEPT ![k] = Advance(IdleCycle, trackedNFTs)], lists)
    /\ last' = Ev("cycle", "", 0, 0, 0, <<>>)
    /\ UNCHANGED <<reqs, rf, wt, e2e, collVars, saleVars, procVars>>

\* the fetch of the current entry succeeded with price field d
PollOk(k, d) ==
    /\ cycles[k].pc = "fetch"
    /\ LET o == cycles[k].nft
           e == heap[o]
           currentPrice == OrElse(d, 0)
       IN /\ Commit([heap EXCEPT ![o] = Evaluated(e, currentPrice)], trackedNFTs,
                    [cycles EXCEPT ![k] = Advance(cycles[k], trackedNFTs)], lists)
          /\ last' = Ev("poll", e.mintAddress, e.chatId, currentPrice, o,
                        AlertMessages(e, currentPrice))
          /\ sends + Len(AlertMessages(e, currentPrice)) <= MaxSends
          /\ sends' = sends + Len(AlertMessages(e, currentPrice))
    /\ UNCHANGED <<reqs, rf, wt, e2e, collVars, saleVars, proc>>

\* the fetch of the current entry threw: logged, next entry
PollFailed(k) ==
    /\ cycles[k].pc = "fetch"
    /\ LET o == cycles[k].nft
           e == heap[o]
       IN /\ Commit(heap, trackedNFTs,
                    [cycles EXCEPT ![k] = Advance(cycles[k], trackedNFTs)], lists)
          /\ last' = Ev("pollFailed", e.mintAddress, e.chatId, 0, o, <<>>)
    /\ UNCHANGED <<reqs, rf, wt, e2e, collVars, saleVars, procVars>>

\* the variant of the evaluator that asks the auction house for the price
\* (src/index.ts): when that lookup throws, the inner catch logs it and the
\* callback goes on with currentPrice = 0
PriceLookupFailed(k) ==
    /\ cycles[k].pc = "fetch"
    /\ LET o == cycles[k].nft
           e == heap[o]
           currentPrice == 0
       IN /\ Commit([heap EXCEPT ![o] = Evaluated(e, currentPrice)], trackedNFTs,
                    [cycles EXCEPT ![k] = Advance(cycles[k], trackedNFTs)], lists)
          /\ last' = Ev("priceFailed", e.mintAddress, e.chatId, currentPrice, o,
                        AlertMessages(e, currentPrice))
    /\ UNCHANGED <<reqs, rf, wt, e2e, collVars, saleVars, procVars>>

(***************************************************************************)
(* retryFetch(url, options, maxRetries, delay)                             *)
(***************************************************************************)
\* what one fetch() can do: resolve with a response, or throw
Response(status) == [kind |-> "response", ok |-> status = 200, status |-> status, message |-> ""]
Thrown(message) == [kind |-> "thrown", ok |-> FALSE, status |-> 0, message |-> message]
Responses == {Response(200), Response(404), Response(500)}
Throws == {Thrown("ECONNRESET")}

\* the policies the callers use (defaults 3 and 1000), and a loop that never runs
Delays == {800, 1000}

\* an Error object
HttpError(status) == [type |-> "http", status |-> status, message |-> "HTTP error"]
TransportError(t) == [type |-> "transport", status |-> 0, message |-> t.message]
MaxRetriesReached == [type |-> "fallback", status |-> 0, message |-> "Maximum retries reached"]

IdleRf == [pc |-> "idle", maxRetries |-> 0, delay |-> 0, attempt |-> 0,
           lastError |-> None, outcomes |-> <<>>, waits |-> <<>>,
           result |-> None]

\* a wrapper that returns whatever response arrives
AcceptsAny(response) == TRUE

\* if (response.ok) return response
Accepts(response) == response.ok

\* a wrapper that keeps the first error it saw
KeepFirst(lastError, error) == IF lastError = None THEN Some(error) ELSE lastError

\* lastError = ... : every failed attempt overwrites it
Remember(lastError, error) == Some(error)

\* a loop that stops one attempt early
LoopCondStrict(attempt, maxRetries) == attempt < maxRetries

\* for (...; attempt <= maxRetries; ...)
LoopCond(attempt, maxRetries) == attempt <= maxRetries

\* if (attempt < maxRetries)
ShouldWait(attempt, maxRetries) == attempt < maxRetries

\* a backoff that does not grow
WaitTimeFlat(delay, attempt) == [num |-> delay, den |-> 1]

\* delay * Math.pow(1.5, attempt - 1), as the fraction num / den
WaitTime(delay, attempt) ==
    LET RECURSIVE pow(_, _)
        pow(b, n) == IF n = 0 THEN 1 ELSE b * pow(b, n - 1)
    IN [num |-> delay * pow(3, attempt - 1), den |-> pow(2, attempt - 1)]

\* attempt++ and the loop test; after the loop: throw lastError || new Error(..)
Iterate(r) ==
    IF LoopCond(r.attempt + 1, r.maxRetries)
    THEN [r EXCEPT !.attempt = @ + 1, !.pc = "fetching"]
    ELSE [r EXCEPT !.attempt = @ + 1, !.pc = "thrown",
                   !.result = IF r.lastError = None THEN Some(MaxRetriesReached)
                              ELSE r.lastError]

\* the rest of the loop body after a failed attempt
AfterFailure(r) ==
    IF ShouldWait(r.attempt, r.maxRetries)
    THEN [r EXCEPT !.pc = "waiting",
                   !.waits = Append(@, WaitTime(r.delay, r.attempt))]
    ELSE Iterate(r)

RfCall(maxRetries, delay) ==
    /\ rf.pc = "idle"
    /\ rf' = Iterate([IdleRf EXCEPT !.maxRetries = maxRetries, !.delay = delay])
    /\ UNCHANGED <<heap, trackedNFTs, reqs, cycles, last, wt>>
    /\ UNCHANGED <<listVars, collVars, saleVars, procVars>>

\* await fetch(url, options) resolves
RfResponse(response) ==
    /\ rf.pc = "fetching"
    /\ LET r == [rf EXCEPT !.outcomes = Append(@, response)]
       IN rf' = IF Accepts(response)
                THEN [r EXCEPT !.pc = "returned", !.result = Some(response)]
                ELSE AfterFailure([r EXCEPT !.lastError =
                                      Remember(@, HttpError(response.status))])
    /\ UNCHANGED <<heap, trackedNFTs, reqs, cycles, last, wt>>
    /\ UNCHANGED <<listVars, collVars, saleVars, procVars>>

\* await fetch(url, options) throws
RfThrow(t) ==
    /\ rf.pc = "fetching"
    /\ LET r == [rf EXCEPT !.outcomes = Append(@, t)]
       IN rf' = AfterFailure([r EXCEPT !.lastError = Remember(@, TransportError(t))])
    /\ UNCHANGED <<heap, trackedNFTs, reqs, cycles, last, wt>>
    /\ UNCHANGED <<listVars, collVars, saleVars, procVars>>

\* the backoff timer fires
RfWaitDone ==
    /\ rf.pc = "waiting"
    /\ rf' = Iterate(rf)
    /\ UNCHANGED <<heap, trackedNFTs, reqs, cycles, last, wt>>
    /\ UNCHANGED <<listVars, collVars, saleVars, procVars>>

(***************************************************************************)
(* withTimeout(promise, timeoutMs, errorMessage)                           *)
(***************************************************************************)
\* the deadlines and descriptions the callers pass
Deadlines == {[ms |-> 15000, msg |-> "Image send timed out"],
              [ms |-> 5000, msg |-> "Initial reply timed out"]}
Values == {"message"}
Errors == {"ETELEGRAM"}

Value(v) == [kind |-> "value", v |-> v, ms |-> 0, msg |-> ""]
Failure(e) == [kind |-> "error", v |-> e, ms |-> 0, msg |-> ""]
\* new Error(`Timeout after ${timeoutMs}ms: ${errorMessage}`)
TimeoutError(ms, msg) == [kind |-> "timeout", v |-> "", ms |-> ms, msg |-> msg]

IdleWt == [pc |-> "idle", op |-> "none", opv |-> "", effect |-> FALSE,
           timer |-> "none", ms |-> 0, msg |-> "", race |-> None,
           first |-> "none"]

\* a race that lets a later settlement replace an earlier one
LastWins(race, result) == Some(result)

\* a promise settles once: Promise.race takes the first settlement
Settle(race, result) == IF race = None THEN Some(result) ELSE race

\* a wrapper that never clears its timer
NoClear(timer) == timer

\* clearTimeout(timeout) in the finally block
ClearTimeout(timer) == IF timer = "pending" THEN "cleared" ELSE timer

\* a timer callback that aborts the operation
Cancel(op) == "cancelled"

\* what the timer callback does to the operation: nothing, it only rejects
OnTimeout(op) == op

\* continuations (microtasks) run before the event loop takes the next event
NoMicrotask == \A k \in 1..MaxCalls : wt[k].pc # "finally"

\* what the caller of withTimeout has got
Outcome(k) == IF wt[k].pc = "settled" THEN wt[k].race ELSE None

\* an event settles the race; an awaiting wrapper resumes in its finally block
Raced(w, result, event) ==
    [w EXCEPT !.race = Settle(@, result),
              !.first = IF @ = "none" THEN event ELSE @,
              !.pc = IF @ = "racing" THEN "finally" ELSE @]

\* the call: the operation is in flight, the timer is set, the wrapper awaits
WtCall(k, d) ==
    /\ wt[k].pc = "idle"
    /\ wt' = [wt EXCEPT ![k] = [IdleWt EXCEPT !.pc = "racing", !.op = "pending",
                                              !.timer = "pending",
                                              !.ms = d.ms, !.msg = d.msg]]
    /\ UNCHANGED <<heap, trackedNFTs, reqs, cycles, last, rf>>
    /\ UNCHANGED <<listVars, collVars, saleVars, procVars>>

\* the operation completes: its side effect has happened
OpResolve(k, v) ==
    /\ NoMicrotask
    /\ wt[k].op = "pending"
    /\ wt' = [wt EXCEPT ![k] = Raced([@ EXCEPT !.op = "fulfilled", !.opv = v,
                                                !.effect = TRUE],
                                     Value(v), "resolved")]
    /\ UNCHANGED <<heap, trackedNFTs, reqs, cycles, last, rf>>
    /\ UNCHANGED <<listVars, collVars, saleVars, procVars>>

\* the operation fails
OpReject(k, e) ==
    /\ NoMicrotask
    /\ wt[k].op = "pending"
    /\ wt' = [wt EXCEPT ![k] = Raced([@ EXCEPT !.op = "rejected", !.opv = e],
                                     Failure(e), "rejected")]
    /\ UNCHANGED <<heap, trackedNFTs, reqs, cycles, last, rf>>
    /\ UNCHANGED <<listVars, collVars, saleVars, procVars>>

\* the deadline passes: the timer callback rejects the race
TimerFire(k) ==
    /\ NoMicrotask
    /\ wt[k].timer = "pending"
    /\ wt' = [wt EXCEPT ![k] = Raced([@ EXCEPT !.timer = "fired", !.op = OnTimeout(@)],
                                     TimeoutError(wt[k].ms, wt[k].msg), "timer")]
    /\ UNCHANGED <<heap, trackedNFTs, reqs, cycles, last, rf>>
    /\ UNCHANGED <<listVars, collVars, saleVars, procVars>>

\* the wrapper resumes: finally { clearTimeout(timeout) }, then it settles
WtFinally(k) ==
    /\ wt[k].pc = "finally"
    /\ wt' = [wt EXCEPT ![k].timer = ClearTimeout(@), ![k].pc = "settled"]
    /\ UNCHANGED <<heap, trackedNFTs, reqs, cycles, last, rf>>
    /\ UNCHANGED <<listVars, collVars, saleVars, procVars>>

\* nothing refers to a settled call whose operation has finished
WtForget(k) ==
    /\ wt[k].pc = "settled"
    /\ wt[k].op # "pending"
    /\ wt[k].timer # "pending"
    /\ wt' = [wt EXCEPT ![k] = IdleWt]
    /\ UNCHANGED <<heap, trackedNFTs, reqs, cycles, last, rf>>
    /\ UNCHANGED <<listVars, collVars, saleVars, procVars>>

(***************************************************************************)
(* Specifications                                                          *)
(***************************************************************************)
Init ==
    /\ heap = [o \in 1..MaxObjs |-> Free]
    /\ trackedNFTs = <<>>
    /\ reqs = EmptyBag
    /\ cycles = [k \in 1..MaxOverlap |-> IdleCycle]
    /\ last = Ev("init", "", 0, 0, 0, <<>>)
    /\ rf = IdleRf
    /\ wt = [k \in 1..MaxCalls |-> IdleWt]
    /\ lists = IdleList
    /\ e2e = NoE2E
    /\ trackedCollections = <<>>
    /\ colls = [k \in 1..MaxPipes |-> IdlePipe]
    /\ issued = NoneIssued
    /\ sale = IdleSale
    /\ told = NoneTold
    /\ sends = 0
    /\ proc = "running"

\* the command handlers on the registry
NextRegistry ==
    \/ \E m \in Mints \cup {NoArg}, c \in Chats : TrackCmd(m, c, MaxObjs)
    \/ \E q \in Fetching : TrackFetched(q)
    \/ \E q \in Fetching : TrackFetchFailed(q)
    \/ \E q \in Sending : TrackSent(q)
    \/ \E q \in Sending : TrackSendFailed(q)
    \/ \E m \in Mints \cup {NoArg}, c \in Chats : Untrack(m, c)
    \/ \E m \in Mints \cup {NoArg}, c \in Chats, p \in AlertInputs : Alert(m, c, p)

SpecRegistry == Init /\ [][NextRegistry]_vars

\* /alert with the texts users type, on a registry that /track fills
NextAlerts ==
    \/ \E m \in PolledMints, c \in Chats : reqs = EmptyBag /\ TrackCmd(m, c, MaxPolled)
    \/ \E q \in Fetching : TrackFetched(q)
    \/ \E q \in Sending : TrackSent(q)
    \/ \E m \in PolledMints \cup {NoArg}, c \in Chats, priceStr \in PriceTexts :
          AlertText(m, c, priceStr)

SpecAlerts == Init /\ [][NextAlerts]_vars

\* the command handlers on the registry together with /list, one /track
\* in flight at a time
NextList ==
    \/ \E m \in Mints, c \in Chats : reqs = EmptyBag /\ TrackCmd(m, c, MaxObjs)
    \/ \E q \in Fetching : TrackFetched(q)
    \/ \E q \in Fetching : TrackFetchFailed(q)
    \/ \E q \in Sending : TrackSent(q)
    \/ \E q \in Sending : TrackSendFailed(q)
    \/ \E m \in Mints, c \in Chats : Untrack(m, c)
    \/ \E m \in Mints, c \in Chats : Alert(m, c, Some(1))
    \/ \E c \in Chats : ListCmd(c)
    \/ \E ok \in BOOLEAN : ListFetched(ok)

SpecList == Init /\ [][NextList]_vars

\* the same handlers, with one chat that at some point starts the
\* conversation /track m, /list, /untrack m, /list and sends nothing else
NextE2E ==
    \/ \E m \in Mints, c \in Chats : Arm(m, c)
    \/ \E m \in Mints, c \in Chats :
          /\ reqs = EmptyBag
          /\ Unscripted(c) \/ Scripted(m, c, {"armed"})
          /\ TrackCmd(m, c, MaxObjs)
    \/ \E q \in Fetching : TrackFetched(q)
    \/ \E q \in Fetching : TrackFetchFailed(q)
    \/ \E q \in Sending : TrackSent(q)
    \/ \E q \in Sending : TrackSendFailed(q)
    \/ \E m \in Mints, c \in Chats :
          /\ Unscripted(c) \/ Scripted(m, c, {"listed"})
          /\ Untrack(m, c)
    \/ \E c \in Chats :
          /\ Unscripted(c) \/ Scripted(e2e.mint, c, {"tracked", "untracked"})
          /\ ListCmd(c)
    \/ \E ok \in BOOLEAN : ListFetched(ok)

SpecE2E == Init /\ [][NextE2E]_vars

\* the collection registry: /collection, the poller and the fetch pipeline,
\* with no NFT tracked (nobody subscribes)
NextCollections ==
    \/ \E symbol \in Symbols \cup {NoArg}, c \in Chats : CollectionCmd(symbol, c)
    \/ PollerStart
    \/ \E k \in 1..MaxPipes, stats \in StatsData : StatsFetched(k, stats)
    \/ \E k \in 1..MaxPipes : StatsFailed(k)
    \/ \E k \in 1..MaxPipes, data \in ActivityData : ActivitiesFetched(k, data)
    \/ \E k \in 1..MaxPipes : ActivitiesFailed(k)

SpecCollections == Init /\ [][NextCollections]_vars

\* the snapshots of the collection registry: /trench, /collection for
\* another collection, and the poller
NextSnapshots ==
    \/ \E c \in Chats : TrenchCmd(c)
    \/ \E k \in 1..MaxPipes : TrenchGreeted(k)
    \/ \E k \in 1..MaxPipes : TrenchGreetFailed(k)
    \/ \E c \in Chats : CollectionCmd("c1", c)
    \/ PollerStart
    \/ \E k \in 1..MaxPipes, stats \in StatsData : StatsFetched(k, stats)
    \/ \E k \in 1..MaxPipes : StatsFailed(k)
    \/ \E k \in 1..MaxPipes, data \in ActivityData : ActivitiesFetched(k, data)
    \/ \E k \in 1..MaxPipes : ActivitiesFailed(k)

SpecSnapshots == Init /\ [][NextSnapshots]_vars

\* the subscribers of a collection: /track of its tokens and of another one,
\* and one /collection at a time whose requests succeed
NextSubscribers ==
    \/ \E m \in CollectionMints \cup {"m2"}, c \in Chats :
          reqs = EmptyBag /\ TrackCmd(m, c, MaxObjs)
    \/ \E q \in Fetching : TrackFetched(q)
    \/ \E q \in Sending : TrackSent(q)
    \/ \E symbol \in Symbols, c \in Chats :
          FreePipes = 1..MaxPipes /\ CollectionCmd(symbol, c)
    \/ \E k \in 1..MaxPipes, stats \in StatsData :
          stats.floorPrice # None /\ StatsFetched(k, stats)
    \/ \E k \in 1..MaxPipes, data \in ActivityData : ActivitiesFetched(k, data)
    \/ SendDelivered

SpecSubscribers == Init /\ [][NextSubscribers]_vars

\* one sale notifier invocation after the other, against every response of
\* the marketplace and every behaviour of the sink
NextSales ==
    \/ \E sink \in Sinks, limit \in Limits : LastBuy(sink, limit)
    \/ \E activities \in ActivityLists, now \in Clock : ActivitiesArrived(activities, now)
    \/ ActivitiesMissing
    \/ \E image \in BOOLEAN : Details(image)
    \/ \E outcome \in {"ok", "failed", "timeout"} : SendEnded(outcome)
    \/ DelayDone
    \/ \E i \in 1..(3 * MaxActivities), how \in {"delivered", "failed"} : LateEnded(i, how)

SpecSales == Init /\ [][NextSales]_vars

\* the scheduled job, minute after minute, and /lastbuy: every invocation
\* reads the clock later than the one before it, the marketplace has at
\* most one sale per second, and what was notified is remembered
RunTimes == {203000, 260000}
RunLists == {a \in UNION {[1..n -> {Some(170), Some(201)}] : n \in 0..MaxActivities} :
                \A i, j \in 1..Len(a) : a[i] = a[j] => i = j}

NextRuns ==
    \/ Started("binding", 5, Recorded)
    \/ Started("context", 1, Recorded)
    \/ \E activities \in RunLists, now \in RunTimes :
          told.at < now /\ ActivitiesArrived(activities, now)
    \/ ActivitiesMissing
    \/ \E image \in BOOLEAN : Details(image)
    \/ \E outcome \in {"ok", "failed", "timeout"} : SendEnded(outcome)
    \/ DelayDone
    \/ \E i \in 1..(3 * MaxActivities), how \in {"delivered", "failed"} : LateEnded(i, how)

SpecRuns == Init /\ [][NextRuns]_vars

\* the command handlers together with the alert evaluator
Next ==
    \/ \E m \in PolledMints, c \in Chats : TrackCmd(m, c, MaxPolled)
    \/ \E q \in Fetching : TrackFetched(q)
    \/ \E q \in Fetching : TrackFetchFailed(q)
    \/ \E q \in Sending : TrackSent(q)
    \/ \E q \in Sending : TrackSendFailed(q)
    \/ \E m \in PolledMints, c \in Chats : Untrack(m, c)
    \/ \E m \in PolledMints, c \in Chats, p \in AlertInputs : Alert(m, c, p)
    \/ \E k \in 1..MaxCycles : CycleStart(k)
    \/ \E k \in 1..MaxCycles, d \in FetchedPrices : PollOk(k, d)
    \/ \E k \in 1..MaxCycles : PollFailed(k)
    \/ SendDelivered

Spec == Init /\ [][Next]_vars

\* the alert evaluator and the handlers that fill its registry, in a process
\* whose unawaited sends may be rejected
NextTasks ==
    \/ Running /\ \E m \in PolledMints, c \in Chats : TrackCmd(m, c, MaxPolled)
    \/ Running /\ \E q \in Fetching : TrackFetched(q)
    \/ Running /\ \E q \in Fetching : TrackFetchFailed(q)
    \/ Running /\ \E q \in Sending : TrackSent(q)
    \/ Running /\ \E m \in PolledMints, c \in Chats : Alert(m, c, Some(1))
    \/ Running /\ \E k \in 1..MaxCycles : CycleStart(k)
    \/ Running /\ \E k \in 1..MaxCycles, d \in FetchedPrices : PollOk(k, d)
    \/ Running /\ \E k \in 1..MaxCycles : PollFailed(k)
    \/ Running /\ SendDelivered
    \/ Running /\ \E exits \in BOOLEAN : SendRejected(exits)

SpecTasks == Init /\ [][NextTasks]_vars

\* the collection poller in a process that the runtime may end: two
\* collections, subscribers of the first, and sends that are rejected
NextPolling ==
    \/ Running /\ \E c \in Chats : reqs = EmptyBag /\ TrackCmd("m1", c, MaxPolled)
    \/ Running /\ \E q \in Fetching : TrackFetched(q)
    \/ Running /\ \E q \in Sending : TrackSent(q)
    \/ Running /\ \E symbol \in Symbols :
                     FreePipes = 1..MaxPipes /\ CollectionCmd(symbol, 1)
    \/ Running /\ PollerStart
    \/ Running /\ \E k \in 1..MaxPipes, stats \in StatsData :
                     stats.floorPrice # None /\ StatsFetched(k, stats)
    \/ Running /\ \E k \in 1..MaxPipes : StatsFailed(k)
    \/ Running /\ \E k \in 1..MaxPipes, data \in ActivityData :
                     Len(data) = 1 /\ ActivitiesFetched(k, data)
    \/ Running /\ \E k \in 1..MaxPipes : ActivitiesFailed(k)
    \/ Running /\ SendDelivered
    \/ Running /\ \E exits \in BOOLEAN : SendRejected(exits)

SpecPolling == Init /\ [][NextPolling]_vars

\* the alert evaluator with a cycle that starts while the one before it is
\* still waiting for a fetch, and the handlers that fill and arm its registry
NextOverlap ==
    \/ \E m \in PolledMints, c \in Chats : reqs = EmptyBag /\ TrackCmd(m, c, MaxPolled)
    \/ \E q \in Fetching : TrackFetched(q)
    \/ \E q \in Sending : TrackSent(q)
    \/ \E m \in PolledMints, c \in Chats : Alert(m, c, Some(1))
    \/ \E k \in 1..MaxOverlap : CycleStart(k)
    \/ \E k \in 1..MaxOverlap, d \in FetchedPrices : PollOk(k, d)
    \/ \E k \in 1..MaxOverlap : PollFailed(k)
    \/ SendDelivered

SpecOverlap == Init /\ [][NextOverlap]_vars

\* the alert evaluator of both variants of the bot: the price comes with the
\* token response (part_000), or from a lookup of its own that can fail
\* after the token was found (src/index.ts)
NextVariants ==
    \/ \E m \in PolledMints, c \in Chats : reqs = EmptyBag /\ TrackCmd(m, c, MaxPolled)
    \/ \E q \in Fetching : TrackFetched(q)
    \/ \E q \in Sending : TrackSent(q)
    \/ \E m \in PolledMints, c \in Chats : Alert(m, c, Some(1))
    \/ \E k \in 1..MaxCycles : CycleStart(k)
    \/ \E k \in 1..MaxCycles, d \in FetchedPrices : PollOk(k, d)
    \/ \E k \in 1..MaxCycles : PollFailed(k)
    \/ \E k \in 1..MaxCycles : PriceLookupFailed(k)
    \/ SendDelivered

SpecVariants == Init /\ [][NextVariants]_vars

\* one retryFetch call against every behaviour of the network
NextFetch ==
    \/ \E n \in 0..MaxRetries, d \in Delays : RfCall(n, d)
    \/ \E response \in Responses : RfResponse(response)
    \/ \E t \in Throws : RfThrow(t)
    \/ RfWaitDone

SpecFetch == Init /\ [][NextFetch]_vars

\* withTimeout calls, their operations and their timers on the event loop
NextTimeout ==
    \/ \E k \in 1..MaxCalls, d \in Deadlines : WtCall(k, d)
    \/ \E k \in 1..MaxCalls, v \in Values : OpResolve(k, v)
    \/ \E k \in 1..MaxCalls, e \in Errors : OpReject(k, e)
    \/ \E k \in 1..MaxCalls : TimerFire(k)
    \/ \E k \in 1..MaxCalls : WtFinally(k)
    \/ \E k \in 1..MaxCalls : WtForget(k)

SpecTimeout == Init /\ [][NextTimeout]_vars

(***************************************************************************)
(* Properties                                                              *)
(***************************************************************************)
\* C1: the registry never holds two entries with the same (mintAddress,
\* chatId), whatever the interleaving of the handlers.
C1_NoDuplicates ==
    \A i, j \in 1..Len(trackedNFTs) :
        (i # j) => ~Matches(Reg[i], Reg[j].mintAddress, Reg[j].chatId)

\* C2: when the evaluator looks at a fetched price p for an entry whose
\* alertPrice is set, it sends exactly one price alert to the owning chat and
\* unsets alertPrice if 0 < p <= alertPrice * 10^9; otherwise (p is 0 or
\* missing, or above the threshold) it sends nothing and keeps alertPrice.
C2_ArmedPoll ==
    [][last'.op = "poll" =>
        LET o == last'.oid
            e == heap[o]
            p == last'.price
            inRegistry == o <= Len(trackedNFTs)
        IN (e.alertPrice # None) =>
             IF p > 0 /\ p <= e.alertPrice[1] * LAMPORTS
             THEN /\ last'.out = <<Msg(e.chatId, "pricealert")>>
                  /\ inRegistry => heap'[o].alertPrice = None
             ELSE /\ last'.out = <<>>
                  /\ inRegistry => heap'[o].alertPrice = e.alertPrice]_vars

C2_Witness ==
    /\ last.op = "poll"
    /\ last.price = LAMPORTS
    /\ last.out = <<Msg(last.chat, "pricealert")>>
    /\ last.oid <= Len(trackedNFTs)
    /\ heap[last.oid].alertPrice = None
    /\ \E i \in 1..Len(trackedNFTs) : Reg[i].alertPrice # None

Ok(outcome) == outcome.kind = "response" /\ outcome.status = 200
AllFailed(outcomes, n) == \A i \in 1..n : ~Ok(outcomes[i])

\* C3: N failed attempts followed by a successful one (N < maxRetries) make
\* exactly N + 1 attempts and N waits and return that response, nothing
\* follows a success; maxRetries failed attempts end the call with an error
\* after exactly maxRetries attempts.
C3_Attempts ==
    LET n == Len(rf.outcomes) IN
    /\ AllFailed(rf.outcomes, n - 1)
    /\ (n >= 1 /\ Ok(rf.outcomes[n])) =>
          /\ rf.pc = "returned"
          /\ rf.result = Some(rf.outcomes[n])
          /\ Len(rf.waits) = n - 1
    /\ (rf.pc = "returned") => (n >= 1 /\ Ok(rf.outcomes[n]))
    /\ (rf.maxRetries >= 1 /\ n = rf.maxRetries /\ AllFailed(rf.outcomes, n)) =>
          rf.pc = "thrown"
    /\ (rf.maxRetries >= 1 /\ rf.pc = "thrown") =>
          (n = rf.maxRetries /\ AllFailed(rf.outcomes, n))

C3_Witness ==
    /\ rf.pc = "returned"
    /\ rf.maxRetries = 3
    /\ Len(rf.outcomes) = 3
    /\ rf.outcomes[1].kind = "thrown"
    /\ rf.outcomes[2].status = 500

\* C4: a call with maxRetries >= 1 makes at least 1 and at most maxRetries
\* attempts, and a response it returns has success status.
C4_Bounded ==
    /\ Len(rf.outcomes) <= rf.maxRetries
    /\ (rf.maxRetries >= 1 /\ rf.pc \in {"returned", "thrown"}) =>
          Len(rf.outcomes) >= 1
    /\ (rf.pc = "returned") =>
          /\ rf.result # None
          /\ rf.result[1].kind = "response"
          /\ rf.result[1].status = 200
    /\ (rf.pc = "thrown") => (rf.result # None /\ rf.result[1] \notin Responses)

C4_Witness ==
    /\ rf.pc = "thrown"
    /\ rf.maxRetries = 1
    /\ rf.outcomes = <<Response(404)>>

\* C5: when every attempt failed, the error raised is the one of the final
\* attempt: the thrown error if it threw, the HTTP-status error of its
\* response otherwise.
C5_LastError ==
    (rf.pc = "thrown" /\ rf.maxRetries >= 1 /\ Len(rf.outcomes) >= 1) =>
        LET final == rf.outcomes[Len(rf.outcomes)] IN
        /\ rf.result # None
        /\ IF final.kind = "thrown"
           THEN rf.result[1].type = "transport" /\ rf.result[1].message = final.message
           ELSE rf.result[1].type = "http" /\ rf.result[1].status = final.status

C5_Witness ==
    /\ rf.pc = "thrown"
    /\ Len(rf.outcomes) = 3
    /\ rf.outcomes[1].kind = "thrown"
    /\ rf.outcomes[2].status = 500
    /\ rf.outcomes[3].status = 404

\* C6: a settled withTimeout call gives its caller the operation's value if
\* the operation completed first, the operation's error if it failed first,
\* and a timeout error carrying the deadline and the description if the
\* timer fired first.
C6_Outcome ==
    \A k \in 1..MaxCalls :
        (wt[k].pc = "settled") =>
            /\ wt[k].first = "resolved" => Outcome(k) = Some(Value(wt[k].opv))
            /\ wt[k].first = "rejected" => Outcome(k) = Some(Failure(wt[k].opv))
            /\ wt[k].first = "timer" =>
                   Outcome(k) = Some([kind |-> "timeout", v |-> "",
                                      ms |-> wt[k].ms, msg |-> wt[k].msg])
            /\ wt[k].first # "none"

C6_Witness ==
    \E k \in 1..MaxCalls :
        /\ wt[k].pc = "settled"
        /\ wt[k].first = "timer"
        /\ wt[k].op = "fulfilled"
        /\ Outcome(k) = Some(TimeoutError(5000, "Initial reply timed out"))

\* C7: the timer of a settled withTimeout call is not pending, whether the
\* call settled by success, by failure or by timeout.
C7_NoPendingTimer ==
    \A k \in 1..MaxCalls : (wt[k].pc \in {"settled", "idle"}) => wt[k].timer # "pending"

C7_Witness ==
    \E j, k \in 1..MaxCalls :
        /\ j # k
        /\ wt[j].pc = "settled" /\ wt[j].first = "resolved" /\ wt[j].timer = "cleared"
        /\ wt[k].pc = "settled" /\ wt[k].first = "timer" /\ wt[k].timer = "fired"

\* C8: the timeout does not cancel the operation: the timer callback leaves
\* it running, its side effect happens when it completes later, and its late
\* result or failure does not change the timeout error already reported.
C8_NotCancelled ==
    [][\A k \in 1..MaxCalls :
          /\ (wt[k].timer = "pending" /\ wt'[k].timer = "fired") =>
                 wt'[k].op = wt[k].op
          /\ (wt[k].op = "pending" /\ wt'[k].op # "pending") =>
                 /\ wt'[k].op \in {"fulfilled", "rejected"}
                 /\ wt'[k].effect = (wt'[k].op = "fulfilled")
          /\ (wt[k].pc = "settled" /\ wt'[k].pc = "settled") =>
                 Outcome(k)' = Outcome(k)
          /\ (wt'[k].pc = "settled" /\ wt'[k].first = "timer") =>
                 Outcome(k)'[1].kind = "timeout"]_vars

C8_Witness ==
    \E k \in 1..MaxCalls :
        /\ wt[k].pc = "settled"
        /\ wt[k].first = "timer"
        /\ wt[k].op = "fulfilled"
        /\ wt[k].effect
        /\ Outcome(k)[1].kind = "timeout"
        /\ wt[k].ms = 15000

\* C9: a /track of a pair that is already in the registry ends with the
\* already-tracked reply and leaves the registry as it was; otherwise the
\* handler awaits the metadata, and when they arrive it appends exactly one
\* entry for the pair at the end of the registry, lastPrice and alertPrice
\* unset, every entry that was there unchanged.
C9_Track ==
    [][/\ (last'.op = "track" /\ last'.mint # NoArg) =>
            /\ Reg' = Reg
            /\ IF IsTracked(last'.mint, last'.chat)
               THEN /\ last'.out = <<Msg(last'.chat, "already")>>
                    /\ reqs' = reqs
               ELSE /\ last'.out = <<>>
                    /\ reqs' = reqs (+) One(Req("fetching", last'.mint, last'.chat))
       /\ (last'.op = "trackPush") =>
            /\ Req("fetching", last'.mint, last'.chat) \in BagToSet(reqs)
            /\ Len(Reg') = Len(Reg) + 1
            /\ SubSeq(Reg', 1, Len(Reg)) = Reg
            /\ Matches(Reg'[Len(Reg')], last'.mint, last'.chat)
            /\ Reg'[Len(Reg')].lastPrice = None
            /\ Reg'[Len(Reg')].alertPrice = None]_vars

C9_Witness ==
    /\ last.op = "trackPush"
    /\ Len(trackedNFTs) = 3
    /\ Matches(Reg[3], last.mint, last.chat)
    /\ Reg[1].alertPrice # None
    /\ Reg[2].mintAddress # Reg[3].mintAddress

\* C10: an /untrack of a pair that is not in the registry ends with the
\* not-tracked reply and leaves the registry as it was; otherwise exactly one
\* entry of the pair is removed and every other entry keeps its fields and
\* its place relative to the others.
C10_Untrack ==
    [][(last'.op = "untrack" /\ last'.mint # NoArg) =>
          IF ~IsTracked(last'.mint, last'.chat)
          THEN /\ last'.out = <<Msg(last'.chat, "nottracked")>>
               /\ Reg' = Reg
          ELSE /\ last'.out = <<Msg(last'.chat, "untracked")>>
               /\ Len(Reg') = Len(Reg) - 1
               /\ \E i \in 1..Len(Reg) :
                     /\ Matches(Reg[i], last'.mint, last'.chat)
                     /\ \A j \in 1..(i - 1) : Reg'[j] = Reg[j]
                     /\ \A j \in i..Len(Reg') : Reg'[j] = Reg[j + 1]]_vars

C10_Witness ==
    /\ last.op = "untrack"
    /\ last.out = <<Msg(last.chat, "untracked")>>
    /\ last.oid = 2
    /\ Len(trackedNFTs) = 2
    /\ Reg[1].mintAddress = last.mint /\ Reg[1].chatId # last.chat
    /\ Reg[2].mintAddress # last.mint
    /\ Reg[1].alertPrice # None

\* C11: an /alert for a pair that is not in the registry ends with the
\* track-first reply and leaves the registry as it was; otherwise the
\* alertPrice of the first entry of the pair becomes the given price, whatever
\* it was and whatever the entry's lastPrice is, and no other field of that
\* entry and no other entry changes.
C11_SetAlert ==
    [][(last'.op = "alert" /\ last'.out # <<Msg(last'.chat, "usage")>>) =>
          IF ~IsTracked(last'.mint, last'.chat)
          THEN /\ last'.out = <<Msg(last'.chat, "trackfirst")>>
               /\ Reg' = Reg
          ELSE LET i == FindIndex(last'.mint, last'.chat) IN
               /\ last'.out = <<Msg(last'.chat, "alertset")>>
               /\ Len(Reg') = Len(Reg)
               /\ Reg'[i].alertPrice = Some(last'.price)
               /\ Reg'[i] = [Reg[i] EXCEPT !.alertPrice = Some(last'.price)]
               /\ \A j \in 1..Len(Reg) : (j # i) => Reg'[j] = Reg[j]]_vars

C11_Witness ==
    /\ last.op = "alert"
    /\ last.out = <<Msg(last.chat, "alertset")>>
    /\ last.price = 1
    /\ Len(trackedNFTs) = 3
    /\ last.oid = 2
    /\ Reg[2].alertPrice = Some(1)
    /\ Reg[1].alertPrice = Some(2)
    /\ Reg[1].mintAddress = Reg[2].mintAddress
    /\ Reg[3].chatId = Reg[2].chatId

\* the mint addresses that the lines of a /list reply are about
MintsShown(out) == [i \in 1..Len(out[1].lines) |-> out[1].lines[i].mint]

\* the pairs a /list handler ls holds, in the order it will report them
Snapshot(h, ls) ==
    [i \in 1..Len(ls.userNFTs) |->
        <<h[ls.userNFTs[i]].mintAddress, h[ls.userNFTs[i]].chatId>>]

\* C12: a /list from a chat that has no entry in the registry gets the
\* not-tracking-any reply; otherwise the handler takes exactly the entries of
\* that chat, in registry (tracking) order, and its reply has one line for
\* each of them in that order, and no line for an entry of another chat.
C12_List ==
    [][/\ (last'.op = "list" /\ lists.pc = "idle") =>
            LET c == last'.chat
                mine == EntriesOf(Reg, c)
            IN IF mine = <<>>
               THEN /\ last'.out = <<Msg(c, "nolist")>>
                    /\ lists' = lists
               ELSE /\ last'.out = <<>>
                    /\ lists'.chat = c
                    /\ [i \in 1..Len(lists'.userNFTs) |-> heap'[lists'.userNFTs[i]]] = mine
       /\ (lists.pc = "fetch" /\ lists'.pc = "fetch") =>
            Snapshot(heap', lists') = Snapshot(heap, lists)
       /\ (last'.op = "listReply" /\ lists.pc = "fetch") =>
            /\ Len(last'.out) = 1
            /\ last'.out[1].to = lists.chat
            /\ MintsShown(last'.out) =
                   [i \in 1..Len(lists.userNFTs) |-> Snapshot(heap, lists)[i][1]]]_vars

C12_Witness ==
    /\ last.op = "listReply"
    /\ last.chat = 1
    /\ MintsShown(last.out) = <<"m2", "m1">>
    /\ last.out[1].lines[1].alert = Some(1)
    /\ last.out[1].lines[2].data = "error"
    /\ Len(trackedNFTs) = 2
    /\ Reg[1].chatId = 1 /\ Reg[1].mintAddress = "m2"
    /\ Reg[2].chatId = 2

\* C13: a chat that does not track m and sends /track m, /list, /untrack m,
\* /list, each after the reply to the one before, with the /track succeeding:
\* the push adds exactly one entry (m, chat) after the entries the chat had,
\* the first /list shows those entries and then m, the /untrack leaves the
\* chat with exactly the entries it had, and the second /list shows them -
\* the not-tracking-any reply if there were none.
C13_EndToEnd ==
    LET c == e2e.chat
        m == e2e.mint
        mine == EntriesOf(Reg, c)
        n == Len(e2e.before)
        mintsBefore == [i \in 1..n |-> e2e.before[i].mintAddress]
    IN /\ (e2e.pc \in {"armed", "tracking"}) => mine = e2e.before
       /\ (e2e.pc \in {"pushed", "tracked", "listing", "listed"}) =>
            /\ Len(mine) = n + 1
            /\ SubSeq(mine, 1, n) = e2e.before
            /\ Matches(mine[n + 1], m, c)
       /\ (e2e.pc = "listed") =>
            /\ Len(e2e.shown) = 1
            /\ e2e.shown[1].to = c
            /\ MintsShown(e2e.shown) = Append(mintsBefore, m)
       /\ (e2e.pc \in {"untracked", "listingAfter", "done"}) => mine = e2e.before
       /\ (e2e.pc = "done") =>
            IF n = 0
            THEN e2e.shownAfter = <<Msg(c, "nolist")>>
            ELSE /\ Len(e2e.shownAfter) = 1
                 /\ e2e.shownAfter[1].to = c
                 /\ MintsShown(e2e.shownAfter) = mintsBefore

C13_Witness ==
    /\ e2e.pc = "done"
    /\ e2e.before = <<>>
    /\ MintsShown(e2e.shown) = <<e2e.mint>>
    /\ e2e.shownAfter = <<Msg(e2e.chat, "nolist")>>
    /\ Len(trackedNFTs) = 2
    /\ Reg[1].mintAddress = e2e.mint
    /\ last.op = "list"

\* the update notes among the messages out that go to chat c
NotesTo(out, c) == SelectSeq(out, LAMBDA x : x.kind = "collupdate" /\ x.to = c)

\* C14: when a fetch for a symbol has brought assets, the update is sent to
\* exactly the chats that own an entry whose collection is the symbol, once
\* to each of them, however many such entries the chat owns.
C14_Subscribers ==
    [][(last'.op = "collFetched" /\ last'.price > 0 /\ colls' # colls) =>
          \A c \in Chats :
              Len(NotesTo(last'.out, c)) =
                  IF \E i \in 1..Len(Reg) : /\ Reg[i].collection = Some(last'.mint)
                                             /\ Reg[i].chatId = c
                  THEN 1 ELSE 0]_vars

Qualifies(blockTime, now) ==
    /\ blockTime # None
    /\ blockTime[1] # 0
    /\ blockTime[1] + 60 >= now \div 1000

Qualifying(activities, now) ==
    SelectSeq([i \in 1..Len(activities) |-> i], LAMBDA i : Qualifies(activities[i], now))

\* the sales a send was made for
Notified == {sale.sent[i].sale : i \in 1..Len(sale.sent)} \ {0}

\* C16: from the activities the request returned, the invocation retains
\* exactly those whose block time is present and not older than 60 seconds
\* before now; an activity without block time or an older one is never
\* processed and nothing is sent for it.
C16_Recency ==
    sale.activities # None =>
        /\ sale.recent = Qualifying(sale.activities[1], sale.now)
        /\ \A s \in (Notified \cup Range(sale.processed) \cup {sale.cur}) \ {0} :
               Qualifies(sale.activities[1][s], sale.now)

\* C16 witness: of an activity 61 seconds old and one exactly 60 seconds
\* old, the second alone was retained, notified and processed
C16_Witness ==
    /\ sale.pc = "done"
    /\ sale.activities = Some(<<Some(139), Some(140)>>)
    /\ sale.recent = <<2>>
    /\ sale.processed = <<2>>
    /\ \E i \in 1..Len(sale.sent) : sale.sent[i].sale = 2 /\ sale.sent[i].outcome = "ok"


\* the sends made for sale s, in the order they were made
SendsFor(s) == SelectSeq(sale.sent, LAMBDA c : c.sale = s)

\* C17: for one notification the methods are attempted in the order image
\* with caption, link preview, plain text; a method is attempted only when
\* the one before it failed or timed out, and none after one succeeded.
C17_Order ==
    \A s \in Notified :
        LET t == SendsFor(s)
        IN /\ \A i \in 1..Len(t) : t[i].payload \in {"image", "preview", "text"}
           /\ \A i \in 2..Len(t) :
                 /\ t[i - 1].outcome \in {"failed", "timeout"}
                 /\ \/ t[i].payload = "preview" /\ t[i - 1].payload = "image"
                    \/ t[i].payload = "text" /\ t[i - 1].payload = "preview"

\* C17 witness: the image was rejected, the link preview timed out, the
\* text was delivered, and the invocation went on to its end
C17_Witness ==
    /\ sale.pc = "done"
    /\ sale.processed = <<1>>
    /\ Len(sale.sent) = 3
    /\ sale.sent[1].payload = "image" /\ sale.sent[1].outcome = "failed"
    /\ sale.sent[2].payload = "preview" /\ sale.sent[2].outcome = "timeout"
    /\ sale.sent[3].payload = "text" /\ sale.sent[3].outcome = "ok"


\* C18: for every qualifying sale that was processed a notification went
\* through the sink, whichever the sink and whether or not the details gave
\* an image: a send was made for the sale, and the last one made was
\* delivered or was the last resort, the plain text.
C18_Delivery ==
    \A s \in Range(sale.processed) :
        LET t == SendsFor(s)
        IN /\ t # <<>>
           /\ t[Len(t)].outcome = "ok" \/ t[Len(t)].payload = "text"


\* the first n elements of a list, or all of them when there are fewer
FirstN(list, n) == [i \in 1..(IF n < Len(list) THEN n ELSE Len(list)) |-> list[i]]

IsPrefix(a, b) == Len(a) <= Len(b) /\ \A i \in 1..Len(a) : a[i] = b[i]

\* the sales processed are the first N qualifying activities, in the order
\* of the response: a prefix of them while the invocation runs, all of them
\* at its end
FirstNProcessed ==
    sale.activities # None =>
        LET due == FirstN(Qualifying(sale.activities[1], sale.now), sale.limit)
        IN /\ IsPrefix(sale.processed, due)
           /\ Len(sale.processed) <= sale.limit
           /\ sale.pc = "done" => sale.processed = due

\* send i of the invocation is a notification of a sale that is processed
\* or being processed
IsNotification(i) ==
    /\ sale.sent[i].payload \in {"image", "preview", "text"}
    /\ sale.sent[i].sale \in (Range(sale.processed) \cup {sale.cur}) \ {0}

\* C19: an invocation with cap N processes the first N qualifying
\* activities in the order of the response and no more, and every send to
\* the sink is the notification of a processed sale: nothing else is sent.
C19_OnlySales ==
    /\ FirstNProcessed
    /\ \A i \in 1..Len(sale.sent) : IsNotification(i)

\* C19, amended: as above, except that an invocation whose activities
\* request failed or returned no list sends one failure message, and
\* nothing else, through a chat context; when the list arrived and nothing
\* in it qualifies nothing is sent.
C19_OnlySalesOrFailure ==
    /\ FirstNProcessed
    /\ \A i \in 1..Len(sale.sent) :
          \/ IsNotification(i)
          \/ /\ sale.sent[i].payload = "error"
             /\ sale.activities = None
             /\ sale.sink = "context"
             /\ Len(sale.sent) = 1
    /\ sale.activities # None /\ sale.recent = <<>> => sale.sent = <<>>

\* C19 witness: with cap 1 and two qualifying activities the invocation
\* ended after the first, having sent its notification and nothing else
C19_Witness ==
    /\ sale.pc = "done"
    /\ sale.limit = 1
    /\ sale.activities = Some(<<Some(170), Some(140)>>)
    /\ sale.processed = <<1>>
    /\ sale.sent # <<>>
    /\ \A i \in 1..Len(sale.sent) : sale.sent[i].sale = 1


(***************************************************************************)
(* The periodic tasks                                                      *)
(***************************************************************************)
\* C20: no failure of a fetch, parse or send step inside a periodic task
\* terminates the task: whatever failed, the process that holds the timers
\* is running, so the task is still scheduled and its next cycles run.
C20_TasksSurvive == Running


(***************************************************************************)
(* The alert evaluator                                                     *)
(***************************************************************************)
\* the callbacks, other than the one that takes the step, that are waiting
\* for the fetch of object o
Waiting(o) ==
    {j \in 1..MaxOverlap : /\ cycles[j].pc = "fetch"
                           /\ cycles[j].nft = o
                           /\ cycles'[j] = cycles[j]}

\* C21: one arming of an alert gives at most one notification. A poll
\* notifies at most once, and only for an entry whose alertPrice is set; it
\* leaves that alertPrice unset, also for every other evaluator callback
\* whose fetch of the entry is in flight; and no step of the evaluator sets
\* an alertPrice: after the trigger only /alert arms the entry again.
C21_OncePerArming ==
    [][/\ last'.op = "poll" /\ cycles' # cycles =>
            LET o == last'.oid
            IN /\ Len(last'.out) <= 1
               /\ heap[o].alertPrice = None => last'.out = <<>>
               /\ last'.out # <<>> =>
                     /\ heap'[o].alertPrice = None
                     /\ \A j \in Waiting(o) : heap'[cycles'[j].nft].alertPrice = None
       /\ last'.op \in {"cycle", "poll", "pollFailed"} /\ cycles' # cycles =>
            /\ trackedNFTs' = trackedNFTs
            /\ \A i \in 1..Len(trackedNFTs) :
                  Reg'[i].alertPrice \in {None, Reg[i].alertPrice}]_vars

\* C21 witness: the alert has just triggered in one callback while another
\* callback's fetch of the same entry is in flight; the entry is idle
C21_Witness ==
    /\ last.op = "poll"
    /\ last.out = <<Msg(last.chat, "pricealert")>>
    /\ heap[last.oid].alertPrice = None
    /\ \E j \in 1..MaxOverlap : cycles[j].pc = "fetch" /\ cycles[j].nft = last.oid


\* C22: when the evaluator's price fetch for an entry succeeds, the entry's
\* lastPrice becomes the fetched price (0 when there is none), whether or
\* not the alert triggered; when the fetch fails, the entry's lastPrice and
\* alertPrice stay as they were.
C22_LastPrice ==
    [][cycles' # cycles =>
         LET o == last'.oid
         IN /\ last'.op = "poll" => heap'[o].lastPrice = Some(last'.price)
            /\ last'.op \in {"pollFailed", "priceFailed"} =>
                  /\ heap'[o].lastPrice = heap[o].lastPrice
                  /\ heap'[o].alertPrice = heap[o].alertPrice]_vars

\* C22 for the evaluator that takes the price from the token response
C22_TokenPrice ==
    [][cycles' # cycles =>
         LET o == last'.oid
         IN /\ last'.op = "poll" => heap'[o].lastPrice = Some(last'.price)
            /\ last'.op = "pollFailed" =>
                  /\ heap'[o].lastPrice = heap[o].lastPrice
                  /\ heap'[o].alertPrice = heap[o].alertPrice]_vars


\* where the callback that has processed position i of the registry goes
Following(i) ==
    IF i < Len(trackedNFTs)
    THEN [pc |-> "fetch", idx |-> i + 1, nft |-> trackedNFTs[i + 1]]
    ELSE [pc |-> "idle", idx |-> 0, nft |-> 0]

\* a cycle goes through the registry position by position: it starts at
\* the first entry, each of its steps processes the entry at its position,
\* whether the fetch succeeded or failed, and takes it to the next one
InOrder ==
    \A k \in 1..MaxOverlap :
        (last'.op \in {"cycle", "poll", "pollFailed"} /\ cycles'[k] # cycles[k]) =>
            /\ cycles[k].pc = "idle" => cycles'[k] = Following(0)
            /\ cycles[k].pc = "fetch" =>
                  /\ last'.oid = trackedNFTs[cycles[k].idx]
                  /\ cycles'[k] = Following(cycles[k].idx)

\* C23: in one evaluator cycle every registry entry is processed exactly
\* once, in registry order, and a failed fetch does not keep the following
\* entries from being processed: the cycle goes through the registry in
\* order, and while it has an entry left the process it runs in is alive.
C23_EveryEntry ==
    [][/\ InOrder
       /\ (\E k \in 1..MaxOverlap : cycles'[k].pc = "fetch") => proc' = "running"]_vars

\* C23 as long as no send of the cycle is rejected
C23_InOrder == [][InOrder]_vars


(***************************************************************************)
(* retryFetch: the waits                                                   *)
(***************************************************************************)
\* C24: between attempts k and k + 1 of retryFetch there is exactly one wait,
\* of delay * 1.5^(k - 1) ms; there is none after a successful attempt nor
\* after the final failed one, so a call that made a attempts made a - 1
\* waits; and each wait is longer than the one before.
C24_Waits ==
    LET n == Len(rf.outcomes)
        w == Len(rf.waits)
        RECURSIVE Pow(_, _)
        Pow(b, e) == IF e = 0 THEN 1 ELSE b * Pow(b, e - 1)
    IN /\ \A k \in 1..w :
             rf.waits[k].num * Pow(2, k - 1) = rf.delay * Pow(3, k - 1) * rf.waits[k].den
       /\ \A k \in 1..(w - 1) :
             rf.waits[k].num * rf.waits[k + 1].den < rf.waits[k + 1].num * rf.waits[k].den
       /\ rf.pc \in {"waiting", "fetching"} => w = n
       /\ rf.pc = "waiting" => n < rf.maxRetries
       /\ (rf.pc \in {"returned", "thrown"} /\ n >= 1) => w = n - 1
       /\ n = 0 => w = 0

\* C24 witness: three failed attempts with delay 800: waits of 800 and
\* 1200 ms, none after the third
C24_Witness ==
    /\ rf.pc = "thrown"
    /\ rf.delay = 800
    /\ Len(rf.outcomes) = 3
    /\ rf.waits = <<[num |-> 800, den |-> 1], [num |-> 2400, den |-> 2]>>


(***************************************************************************)
(* The collection registry                                                 *)
(***************************************************************************)
\* the entry stored under a symbol
EntryOf(reg, symbol) == reg[CHOOSE i \in 1..Len(reg) : reg[i].symbol = symbol]

\* the pipelines of trackCollectionActivity that end in this step
Ending == {k \in 1..MaxPipes : /\ colls[k].pc = "activities"
                               /\ colls[k].by # "trench"
                               /\ colls'[k] # colls[k]}

Fetched(stats, field) ==
    IF stats = None \/ stats[1][field] = None THEN 0 ELSE stats[1][field][1]

\* C26: whenever the stats request and the activities request of a poll
\* both succeed, the entry stored under the symbol holds the fetched stats
\* after the poll - also when the list of activities is empty.
C26_StatsStored ==
    [][\A k \in Ending :
          (last'.op = "collFetched" /\ colls[k].by = "poller") =>
             \E i \in 1..Len(trackedCollections') :
                 /\ trackedCollections'[i].symbol = colls[k].symbol
                 /\ trackedCollections'[i].floorPrice = Fetched(colls[k].stats, "floorPrice")
                 /\ trackedCollections'[i].volume24h = Fetched(colls[k].stats, "volumeAll")
                 /\ trackedCollections'[i].listedCount = Fetched(colls[k].stats, "listedCount")]_vars

\* C26 for the polls whose list of activities is not empty
C26_StatsStoredWithSales ==
    [][\A k \in Ending :
          (last'.op = "collFetched" /\ colls[k].by = "poller" /\ last'.price > 0) =>
             \E i \in 1..Len(trackedCollections') :
                 /\ trackedCollections'[i].symbol = colls[k].symbol
                 /\ trackedCollections'[i].floorPrice = Fetched(colls[k].stats, "floorPrice")
                 /\ trackedCollections'[i].volume24h = Fetched(colls[k].stats, "volumeAll")
                 /\ trackedCollections'[i].listedCount = Fetched(colls[k].stats, "listedCount")]_vars

\* C27: the entry stored under a symbol comes from the most recently issued
\* successful fetch of that symbol: a pipeline that had sent both of its
\* requests before another pipeline for the same symbol started never stores
\* its result once that later pipeline has stored its own.
C27_LatestIssued ==
    [][\A k \in Ending :
          (last'.op = "collFetched" /\ last'.price > 0) => k \notin issued.stale]_vars

\* the loop of the poller: the callback starts on the first key with the
\* other keys of the registry left, in key order; a pipeline that returns,
\* with a result or after a failure, takes the callback to the next key left
Polling ==
    \A k \in 1..MaxPipes :
        (colls'[k] # colls[k] /\ "poller" \in {colls[k].by, colls'[k].by}) =>
            LET pipe == colls[k]
                next == colls'[k]
                returns == \/ pipe.pc = "activities"
                           \/ pipe.pc = "stats" /\ next.pc # "activities"
            IN /\ pipe.pc = "idle" =>
                     /\ next.pc = "stats"
                     /\ <<next.symbol>> \o next.rest = Keys(trackedCollections)
               /\ (pipe.pc = "stats" /\ ~returns) =>
                     /\ next.symbol = pipe.symbol
                     /\ next.rest = pipe.rest
               /\ (returns /\ pipe.rest = <<>>) => next.pc = "idle"
               /\ (returns /\ pipe.rest # <<>>) =>
                     /\ next.pc = "stats"
                     /\ next.symbol = Head(pipe.rest)
                     /\ next.rest = Tail(pipe.rest)

\* C28: in one cycle of the collection poller every key the registry had at
\* the start is polled exactly once, in key order, and a failed fetch does
\* not keep the remaining symbols from being polled: the callback goes
\* through the keys in order, and while it has a symbol in hand the process
\* it runs in is alive.
C28_EveryKey ==
    [][/\ Polling
       /\ (\E k \in 1..MaxPipes : colls'[k].by = "poller") => proc' = "running"]_vars

\* C28 as long as no send of the cycle is rejected
C28_KeyOrder == [][Polling]_vars


\* the processing of sale s failed: its details gave no image, no send was
\* made for it, or the last send made for it was not delivered
SaleFailed(s) ==
    LET t == SendsFor(s)
    IN \/ t = <<>>
       \/ t[1].payload # "image"
       \/ t[Len(t)].outcome \in {"failed", "timeout"}

\* C29: a failure while one qualifying sale is processed - no details, or
\* every method of delivery failed - does not end the invocation: the sale
\* after it within the cap is the next one taken, and at the end of the
\* invocation every qualifying sale within the cap has been processed, in
\* the order of the response.
C29_Continues ==
    sale.activities # None =>
        LET due == FirstN(Qualifying(sale.activities[1], sale.now), sale.limit)
            n == Len(sale.processed)
        IN /\ IsPrefix(sale.processed, due)
           /\ \A i \in 1..n :
                 (SaleFailed(sale.processed[i]) /\ i < Len(due)) =>
                     /\ i = n => sale.cur = due[i + 1]
                     /\ sale.pc = "done" => n = Len(due)

\* C29 witness: every method failed for the first sale, the second had no
\* details and its text was delivered, and both count as processed
C29_Witness ==
    /\ sale.pc = "done"
    /\ sale.processed = <<1, 2>>
    /\ Len(SendsFor(1)) = 3
    /\ \A i \in 1..3 : SendsFor(1)[i].outcome = "failed"
    /\ SendsFor(2) # <<>>
    /\ SendsFor(2)[1].payload = "text"
    /\ SendsFor(2)[1].outcome = "ok"


\* C30: every alertPrice in the registry is a finite positive number: an
\* /alert whose price is zero, negative or not finite stores nothing.
C30_FinitePositive ==
    \A i \in 1..Len(Reg) :
        Reg[i].alertPrice # None =>
            /\ Reg[i].alertPrice[1] > 0
            /\ Reg[i].alertPrice[1] # Infinity

\* C30 for the prices that are no number at all: an /alert without a mint
\* or with a price that does not parse changes no entry and replies with
\* the usage, and no stored alertPrice is NaN
C30_NoNumber ==
    [][(last'.op = "alert" /\ last' # last /\ last'.out = <<Msg(last'.chat, "usage")>>) =>
          heap' = heap]_vars


(***************************************************************************)
(* /untrack while an evaluator cycle is suspended                          *)
(***************************************************************************)
\* the positions of the registry that cycle k has still to visit: the array
\* iterator reads position idx + 1 next, and only ever moves forward
Ahead(cyc, k) == {p \in 1..MaxObjs : p > cyc[k].idx}

\* where the entry at position p is after array.splice(r, 1)
Shifted(p, r) == IF p > r THEN p - 1 ELSE p

\* C31: when /untrack removes an entry while an evaluator cycle is suspended
\* on a fetch, no other entry is skipped: every entry the cycle had still to
\* visit, but for the removed one, is still at a position the cycle has yet
\* to visit.
C31_NoneSkipped ==
    [][\A k \in 1..MaxOverlap :
          (/\ last'.op = "untrack" /\ trackedNFTs' # trackedNFTs
           /\ cycles[k].pc = "fetch") =>
             \A p \in Ahead(cycles, k) \cap (1..Len(trackedNFTs)) :
                 p # last'.oid => Shifted(p, last'.oid) \in Ahead(cycles', k)]_vars

\* C31 for a removal behind the entry being fetched: nothing is skipped
C31_RemovedLater ==
    [][\A k \in 1..MaxOverlap :
          (/\ last'.op = "untrack" /\ trackedNFTs' # trackedNFTs
           /\ cycles[k].pc = "fetch" /\ last'.oid > cycles[k].idx) =>
             \A p \in Ahead(cycles, k) \cap (1..Len(trackedNFTs)) :
                 p # last'.oid => Shifted(p, last'.oid) \in Ahead(cycles', k)]_vars


\* C32: a price alert is sent only for a mint and chat that are in the
\* registry when it is sent: the entry whose fetch completes after it was
\* untracked produces no notification.
C32_OnlyTracked ==
    [][(last'.op = "poll" /\ cycles' # cycles /\ last'.out # <<>>) =>
          IsTracked(last'.mint, last'.chat)]_vars

\* C32 for the entries that are in the registry when their fetch completes:
\* the notification goes to the chat of the entry, about its mint
C32_ToItsChat ==
    [][(last'.op = "poll" /\ cycles' # cycles /\ last'.out # <<>>) =>
          /\ last'.out = <<Msg(heap[last'.oid].chatId, "pricealert")>>
          /\ last'.mint = heap[last'.oid].mintAddress
          /\ last'.chat = heap[last'.oid].chatId]_vars


\* the /track request that ends in this step had pushed its entry
EndsAfterPush ==
    LET q == Req("sending", last'.mint, last'.chat)
    IN CopiesIn(q, reqs') < CopiesIn(q, reqs)

\* C33: a /track request that ends with the failure reply has added no
\* entry: it is not a request that pushed one which is still in the
\* registry, where it would make the next /track of the mint from the chat
\* be answered with already tracked.
C33_NothingAdded ==
    [][(/\ last'.op = "trackEnd" /\ reqs' # reqs
        /\ last'.out = <<Msg(last'.chat, "failed")>>) =>
          ~(EndsAfterPush /\ IsTracked(last'.mint, last'.chat))]_vars

\* C33 for the requests whose fetch of the token failed: they end with the
\* failure reply and leave the registry as it is
C33_FetchFailed ==
    [][(/\ last'.op = "trackEnd" /\ reqs' # reqs
        /\ last'.out = <<Msg(last'.chat, "failed")>>
        /\ ~EndsAfterPush) =>
          /\ CopiesIn(Req("fetching", last'.mint, last'.chat), reqs') <
                CopiesIn(Req("fetching", last'.mint, last'.chat), reqs)
          /\ trackedNFTs' = trackedNFTs /\ heap' = heap]_vars


\* the /collection requests that end in this step
Answered == {k \in 1..MaxPipes : /\ colls[k].by = "command"
                                 /\ colls'[k] # colls[k]
                                 /\ colls'[k].pc = "idle"}

\* C34: /collection answers with the now-tracking message only when its
\* fetch succeeded, and then the symbol is a key of the collection registry;
\* when the fetch failed it answers with the failure message.
C34_SuccessReply ==
    [][\A k \in Answered :
          LET c == colls[k].chat
          IN /\ Msg(c, "nowtracking") \in Range(last'.out) =>
                   /\ last'.op = "collFetched"
                   /\ colls[k].symbol \in Range(Keys(trackedCollections'))
             /\ last'.op = "collFailed" => last'.out = <<Msg(c, "failed")>>]_vars

\* C34 for the requests whose fetch brought activities: the symbol is a
\* key of the registry when the now-tracking message is sent
C34_Stored ==
    [][\A k \in Answered :
          (last'.op = "collFetched" /\ last'.price > 0) =>
              /\ Msg(colls[k].chat, "nowtracking") \in Range(last'.out)
              /\ colls[k].symbol \in Range(Keys(trackedCollections'))]_vars


\* the sends made for sale s that reached the chat: delivered within the
\* deadline, or delivered after it had passed
Reached(s) ==
    SelectSeq(SendsFor(s), LAMBDA c : c.outcome = "ok" \/ c.late = "delivered")

\* C35: for a processed sale at most one message reaches the chat, also
\* when an attempt ran past its deadline, the next method was started, and
\* the late attempt was delivered after all.
C35_OneMessage ==
    \A s \in Notified : Len(Reached(s)) <= 1

\* C35 for the attempts that end within their deadline: at most one of the
\* sends made for a sale is awaited to its delivery, and it is the last
C35_OneDelivered ==
    \A s \in Notified :
        LET t == SendsFor(s)
        IN \A i \in 1..Len(t) : t[i].outcome = "ok" => i = Len(t)


\* C36: across successive invocations through the same sink a sale is
\* notified at most once: a sale of which the invocation has delivered a
\* notification is none that an earlier invocation delivered one of.
C36_OncePerSale ==
    \A s \in Notified :
        Reached(s) # <<>> => <<sale.sink, sale.activities[1][s][1]>> \notin told.sales

\* C36 for the sales that are older than a minute when the later
\* invocation reads the clock: they are not notified again
C36_OnlyWithinTheMinute ==
    \A s \in Notified :
        (Reached(s) # <<>> /\ <<sale.sink, sale.activities[1][s][1]>> \in told.sales) =>
            sale.activities[1][s][1] >= Seconds(sale.now) - 60

====
